---- MODULE Spec2Model ----
(***************************************************************************)
(* A model of sciefylab/tensordb: the tensor value (tensor/tensor.go), the *)
(* storage engine and its in-memory index (pkg/tensor/storage.go) and the  *)
(* query executor (Executor.Execute, loadFullTensorTyped), and the GET     *)
(* DATA statement of the parser (pkg/tensor/parser.go).                    *)
(*                                                                         *)
(* Seven specifications share the module:                                  *)
(*   SpecInfer  Tensor.GetDataForInference as a pure function of bounded   *)
(*              inputs;                                                    *)
(*   SpecParse  Parser.Parse as a pure function of bounded GET DATA texts; *)
(*   Spec       one executor on an initially empty data directory,        *)
(*              executing one query at a time;                             *)
(*   SpecShapes the same executor once two tensors of two dimensions were  *)
(*              created, with filtered listing, SELECT, direct mmap access *)
(*              and Close;                                                 *)
(*   SpecOpen   NewStorage on a directory written by hand (metadata files  *)
(*              that lack lines, data files of any length, files that      *)
(*              cannot be written), one query or SaveTensor call, and the  *)
(*              store opened again;                                        *)
(*   SpecGet    the goroutines of one GET DATA query, interleaved;         *)
(*   SpecGetFair the same goroutines under a fair scheduler, for queries   *)
(*              of at most two names.                                      *)
(* Go slices are 0-based; the sequences below are 1-based.                 *)
(***************************************************************************)
EXTENDS Integers, Sequences, FiniteSets, TLC

VARIABLES
    fin,    \* SpecInfer: the inputs of GetDataForInference; SpecParse: the text
    fout,   \* SpecInfer, SpecParse: what the calls returned
    fpc,    \* SpecInfer, SpecParse: "in" before the calls, "out" after
    fs,     \* the data directory: [meta, data, locked], meta and data each a
            \*   map name -> file content
    index,  \* InMemoryIndex: [ByDataType, ByNumDimensions], maps key -> set of names
    tab,    \* Executor tables and the handles the process holds:
            \*   [mmaps, openFiles, mapped, opened]
    res,    \* Spec: the last query and what Execute returned for it
    lastBuf,\* Spec (history): name -> the buffer of its last successful INSERT
            \*   (data) and of the one before (prev)
    queries,\* Spec (history): the number of queries executed
    view,   \* SpecShapes: the [name, file, mmap] a direct mmap access handed
            \*   out and whose disposer was not called yet (Nil for none)
    query,  \* SpecGet: the GetDataTensorQuery [TensorNames, Slices, BatchSize]
    tasks,  \* SpecGet: per goroutine, its position and its local variables
    errChan,    \* SpecGet: the errors sent, in the order sent
    resultChan, \* SpecGet: the [index, data] messages sent, in the order sent
    getOut  \* SpecGet: [state, out]: "running", then "returned" with what
            \*   Execute returned, or "crashed" when the process was killed

inferVars == <<fin, fout, fpc>>
storeVars == <<fs, index, tab>>
execVars == <<res, lastBuf, queries, view>>
getVars == <<query, tasks, errChan, resultChan, getOut>>
vars == <<fin, fout, fpc, fs, index, tab, res, lastBuf, queries, view,
          query, tasks, errChan, resultChan, getOut>>

\* ---------------------------------------------------------------- bounds
MaxFields == 4
MaxDim == 2
MaxBatch == 3
MaxQueries == 4

\* ------------------------------------------------------- kinds and errors
DataTypeFloat32 == "float32"
DataTypeFloat64 == "float64"
DataTypeInt32 == "int32"
DataTypeInt64 == "int64"
Kinds == {DataTypeFloat32, DataTypeFloat64, DataTypeInt32, DataTypeInt64}

\* A Go nil pointer or nil slice argument: the empty sequence; a present value v
\* is <<v>>.
Nil == <<>>
Some(v) == <<v>>

Err(msg) == [ok |-> FALSE, err |-> msg]
Ok(v) == [ok |-> TRUE, val |-> v]

GetElementSize(dataType) ==
    CASE dataType = DataTypeFloat32 -> 4
      [] dataType = DataTypeFloat64 -> 8
      [] dataType = DataTypeInt32 -> 4
      [] dataType = DataTypeInt64 -> 8
      [] OTHER -> 0

\* ------------------------------------------------------------ tensor value
RECURSIVE Product(_)
Product(shape) ==
    IF shape = <<>> THEN 1 ELSE Head(shape) * Product(Tail(shape))

\* getTotalElements / tNilaiTotalElemen: 1 for rank 0, 0 when a dimension is 0.
tNilaiTotalElemen(shape) ==
    IF Len(shape) = 0 THEN 1
    ELSE IF \E i \in 1..Len(shape) : shape[i] = 0 THEN 0
    ELSE Product(shape)

RECURSIVE StrideAt(_, _)
StrideAt(shape, i) ==
    IF i = Len(shape) THEN 1
    ELSE IF shape[i + 1] = 0 THEN 0
    ELSE StrideAt(shape, i + 1) * shape[i + 1]

\* Strides that are not zeroed for a shape with a zero dimension.
NewStrides_Plain(shape) == [i \in 1..Len(shape) |-> StrideAt(shape, i)]

\* The strides NewTensor (and GetDataForInference for a slice) computes.
NewStrides(shape) ==
    [i \in 1..Len(shape) |->
        IF tNilaiTotalElemen(shape) > 0 THEN StrideAt(shape, i) ELSE 0]

Zeros(n) == [i \in 1..n |-> 0]

NewTensor(name, shape, typeT, dataTypeString) ==
    IF typeT # dataTypeString THEN Err("type parameter mismatch")
    ELSE IF \E i \in 1..Len(shape) : shape[i] < 0 THEN Err("negative dimension")
    ELSE Ok([Name |-> name, Shape |-> shape,
             Data |-> Zeros(tNilaiTotalElemen(shape)),
             DataType |-> dataTypeString, Strides |-> NewStrides(shape)])

SetData(t, newData) ==
    IF Len(newData) # tNilaiTotalElemen(t.Shape) THEN Err("data size mismatch")
    ELSE Ok([t EXCEPT !.Data = newData])

\* ranges: a sequence of <<lo, hi>> pairs.
SliceShape(ranges) == [i \in 1..Len(ranges) |-> ranges[i][2] - ranges[i][1]]

SourceOffset(idx, strides) ==
    LET RECURSIVE Sum(_)
        Sum(i) == IF i = 0 THEN 0 ELSE idx[i] * strides[i] + Sum(i - 1)
    IN Sum(Len(idx))

\* One pass of the carry loop of GetSlice (tensor.go 264-274): the next index
\* vector, or stop when the loop leaves mainLoop at dimension 0.
RECURSIVE Carry(_, _, _)
Carry(idx, ranges, i) ==
    IF i = 0 THEN [stop |-> FALSE, idx |-> idx]
    ELSE LET bumped == [idx EXCEPT ![i] = idx[i] + 1]
         IN IF bumped[i] < ranges[i][2] THEN [stop |-> FALSE, idx |-> bumped]
            ELSE IF i > 1 THEN Carry([bumped EXCEPT ![i] = ranges[i][1]], ranges, i - 1)
            ELSE [stop |-> TRUE, idx |-> bumped]

\* mainLoop of GetSlice: one element is copied (SliceCopy), then the index
\* vector is carried (SliceAdvance); dest is the result so far.
RECURSIVE SliceLoop(_, _, _, _, _)
SliceLoop(t, ranges, idx, dest, resultSize) ==
    LET SliceAdvance(next, copied) ==
            IF next.stop THEN Ok(copied \o Zeros(resultSize - Len(copied)))
            ELSE SliceLoop(t, ranges, next.idx, copied, resultSize)
        SliceCopy(sourceOffset) ==
            IF sourceOffset >= Len(t.Data) THEN Err("source offset out of bounds")
            ELSE IF Len(dest) + 1 >= resultSize THEN Ok(Append(dest, t.Data[sourceOffset + 1]))
            ELSE SliceAdvance(Carry(idx, ranges, Len(idx)),
                              Append(dest, t.Data[sourceOffset + 1]))
    IN SliceCopy(SourceOffset(idx, t.Strides))

GetSlice(t, ranges) ==
    LET SliceSize(newSliceShape) ==
            IF \E i \in 1..Len(newSliceShape) : newSliceShape[i] = 0 THEN 0
            ELSE Product(newSliceShape)
        GetSliceOf(total, resultSize) ==
            IF total = 0 /\ Len(ranges) > 0 /\ ranges[1][2] - ranges[1][1] > 0
            THEN Err("non-empty slice from an empty tensor")
            ELSE IF /\ Len(ranges) # Len(t.Shape)
                    /\ ~(Len(t.Shape) = 0 /\ Len(ranges) = 1 /\ ranges[1] = <<0, 1>>)
                    /\ ~(/\ Len(t.Shape) = 1 /\ t.Shape[1] = 1
                         /\ Len(ranges) = 1 /\ ranges[1] = <<0, 1>>)
            THEN Err("slice ranges length does not match tensor dimensions")
            ELSE IF \E i \in 1..Len(ranges) :
                      \/ ranges[i][1] < 0
                      \/ ranges[i][2] > (IF Len(t.Shape) = 0 /\ i = 1 THEN 1 ELSE t.Shape[i])
                      \/ ranges[i][1] > ranges[i][2]
            THEN Err("invalid slice range")
            ELSE IF resultSize = 0 THEN Ok(<<>>)
            ELSE IF total = 1 /\ Len(t.Shape) <= 1 /\ resultSize = 1
            THEN (IF Len(t.Data) > 0 THEN Ok(<<t.Data[1]>>)
                  ELSE Err("inconsistent scalar tensor state"))
            ELSE SliceLoop(t, ranges, [i \in 1..Len(t.Shape) |-> ranges[i][1]], <<>>,
                           resultSize)
    IN GetSliceOf(tNilaiTotalElemen(t.Shape), SliceSize(SliceShape(ranges)))

BatchInfo(batchSize, numBatches, currentBatchIndex) ==
    [BatchSize |-> batchSize, NumBatches |-> numBatches,
     CurrentBatchIndex |-> currentBatchIndex]

Envelope(t, shape, strides, total, bytes, info, d) ==
    [Name |-> t.Name, Shape |-> shape, NumDimensions |-> Len(shape),
     DataType |-> t.DataType, TotalElements |-> total, DataSizeBytes |-> bytes,
     Strides |-> strides, BatchInfo |-> info, Data |-> d]

\* A numBatches that rounds down.
CeilDiv_Floor(total, batchSize) == total \div batchSize

\* math.Ceil(float64(total) / float64(batchSize)) for batchSize > 0.
CeilDiv(total, batchSize) == (total + batchSize - 1) \div batchSize

Min(a, b) == IF a < b THEN a ELSE b

\* The selection of GetDataForInference (tensor.go 285-316): the sliced data
\* with a fresh shape and strides, or the whole tensor. slice is ranges[0]:
\* Nil, or Some(r) with r a sequence of pairs.
Selection(t, slice) ==
    LET Sliced(ranges0, sliced) ==
            IF ~sliced.ok THEN Err("failed to get slice")
            ELSE Ok([data |-> sliced.val, shape |-> SliceShape(ranges0),
                     strides |-> NewStrides(SliceShape(ranges0))])
    IN IF slice # Nil
       THEN (IF Len(slice[1]) # Len(t.Shape)
                /\ ~(Len(t.Shape) = 0 /\ Len(slice[1]) = 1 /\ slice[1][1] = <<0, 1>>)
             THEN Err("slice ranges length does not match tensor dimensions")
             ELSE Sliced(slice[1], GetSlice(t, slice[1])))
       ELSE Ok([data |-> t.Data, shape |-> t.Shape, strides |-> t.Strides])

\* A batch that always starts at the first element.
BatchData_FromStart(dataToProcess, start, end) ==
    IF start >= end THEN <<>> ELSE SubSeq(dataToProcess, 1, end - start)

\* batchData of the batch loop: dataToProcess[start:end].
BatchData(dataToProcess, start, end) ==
    IF start >= end THEN <<>> ELSE SubSeq(dataToProcess, start + 1, end)

\* The batch loop's pass i (0-based), tensor.go 373-398.
BatchWindow(t, sel, total, elementSize, batchSize, numBatches, i) ==
    LET BatchEnvelope(batchData) ==
            Envelope(t, sel.shape, sel.strides, total, Len(batchData) * elementSize,
                     Some(BatchInfo(batchSize, numBatches, i)), batchData)
    IN BatchEnvelope(BatchData(sel.data, i * batchSize, Min(i * batchSize + batchSize, total)))

SingleEnvelope(t, sel, total, elementSize) ==
    <<Envelope(t, sel.shape, sel.strides, total, total * elementSize, Nil, sel.data)>>

GetDataForInference(t, slice, batchSize) ==
    LET \* numBatches after its correction (351-360), ceil being the rounded quotient
        NumBatches(ceil, total) ==
            IF ceil = 0 /\ total > 0 THEN 1
            ELSE IF total = 0 THEN (IF batchSize > 0 THEN 1 ELSE 0)
            ELSE ceil
        \* 362-399: the envelope for no batch at all, or the batch loop
        Batches(sel, total, elementSize, numBatches) ==
            IF numBatches = 0 /\ total = 0 /\ batchSize > 0
            THEN Ok(<<Envelope(t, sel.shape, sel.strides, 0, 0,
                               Some(BatchInfo(batchSize, 1, 0)), <<>>)>>)
            ELSE Ok([k \in 1..numBatches |->
                       BatchWindow(t, sel, total, elementSize, batchSize, numBatches, k - 1)])
        \* 341-399: what is returned for the selection sel of total elements
        Envelopes(sel, total, elementSize) ==
            IF batchSize <= 0 \/ total = 0 THEN Ok(SingleEnvelope(t, sel, total, elementSize))
            ELSE Batches(sel, total, elementSize, NumBatches(CeilDiv(total, batchSize), total))
        Selected(s) ==
            IF ~s.ok THEN s
            ELSE Envelopes(s.val, tNilaiTotalElemen(s.val.shape), GetElementSize(t.DataType))
    IN Selected(Selection(t, slice))

\* A Go interface{} value the formatting yields, with its dynamic type: an
\* element, a []interface{} of such values, a string, or nil.
FmtElem(v) == [kind |-> "elem", val |-> v, text |-> "", items |-> <<>>]
FmtList(items) == [kind |-> "list", val |-> 0, text |-> "", items |-> items]
FmtText(str) == [kind |-> "text", val |-> 0, text |-> str, items |-> <<>>]
FmtNil == [kind |-> "nil", val |-> 0, text |-> "", items |-> <<>>]

\* formatRecursiveCore: [val, off], the value and *currentOffset on return.
RECURSIVE formatRecursiveCore(_, _, _)
formatRecursiveCore(data, currentShape, currentOffset) ==
    LET RECURSIVE buildEmpty(_)
        buildEmpty(shp) ==
            IF Len(shp) = 0 THEN FmtNil
            ELSE IF shp[1] = 0 THEN FmtList(<<>>)
            ELSE IF Len(shp) > 1 THEN FmtList([k \in 1..shp[1] |-> buildEmpty(Tail(shp))])
            ELSE FmtList([k \in 1..shp[1] |-> FmtNil])
        Copied(elementsToCopy) ==
            [val |-> FmtList([i \in 1..elementsToCopy |-> FmtElem(data[currentOffset + i])]),
             off |-> currentOffset + elementsToCopy]
        RECURSIVE Rows(_, _, _)
        Placed(i, result, r) == Rows(i + 1, r.off, Append(result, r.val))
        Rows(i, offset, result) ==
            IF i = currentShape[1] THEN [val |-> FmtList(result), off |-> offset]
            ELSE IF offset >= Len(data) /\ tNilaiTotalElemen(currentShape) > 0
            THEN Rows(i + 1, offset, Append(result, buildEmpty(Tail(currentShape))))
            ELSE Placed(i, result, formatRecursiveCore(data, Tail(currentShape), offset))
    IN IF Len(currentShape) = 0 THEN [val |-> FmtNil, off |-> currentOffset]
       ELSE IF currentShape[1] = 0 THEN [val |-> FmtList(<<>>), off |-> currentOffset]
       ELSE IF Len(currentShape) = 1
       THEN (IF currentOffset + currentShape[1] > Len(data)
             THEN Copied(IF Len(data) - currentOffset < 0 THEN 0
                         ELSE Len(data) - currentOffset)
             ELSE Copied(currentShape[1]))
       ELSE Rows(0, currentOffset, <<>>)

\* The nest read row by row instead of by its elements in order: every row
\* starts again at the first element.
FormatMultidimensional_Restart(t) ==
    IF Len(t.Shape) = 0 THEN FmtElem(t.Data[1])
    ELSE IF Len(t.Shape) = 1 THEN formatRecursiveCore(t.Data, t.Shape, 0).val
    ELSE FmtList([k \in 1..t.Shape[1] |->
                     formatRecursiveCore(t.Data, Tail(t.Shape), 0).val])

\* Tensor.FormatMultidimensional; a nil buffer is the empty sequence.
FormatMultidimensional(t) ==
    LET RECURSIVE buildEmptyStructure(_, _)
        buildEmptyStructure(dimIdx, shp) ==
            IF dimIdx >= Len(shp) THEN FmtList(<<>>)
            ELSE FmtList([i \in 1..shp[dimIdx + 1] |-> buildEmptyStructure(dimIdx + 1, shp)])
        Formatted(expectedElements) ==
            IF Len(t.Data) = 0 /\ expectedElements > 0
            THEN FmtText("<nil tensor data or data inconsistent with non-empty shape>")
            ELSE IF Len(t.Shape) = 0
            THEN (IF Len(t.Data) = 1 THEN FmtElem(t.Data[1])
                  ELSE IF Len(t.Data) = 0 /\ expectedElements <= 1 THEN FmtList(<<>>)
                  ELSE FmtText("<inconsistent scalar data for shape []>"))
            ELSE IF expectedElements = 0 THEN buildEmptyStructure(0, t.Shape)
            ELSE formatRecursiveCore(t.Data, t.Shape, 0).val
    IN Formatted(tNilaiTotalElemen(t.Shape))

\* --------------------------------------------------------- Go maps, files
\* A Go map is a function whose DOMAIN is the set of keys present.
EmptyMap == <<>>
Has(m, k) == k \in DOMAIN m
MapPut(m, k, v) == [x \in DOMAIN m \cup {k} |-> IF x = k THEN v ELSE m[x]]
MapDel(m, k) == [x \in DOMAIN m \ {k} |-> m[x]]

\* strconv.Itoa and strconv.Atoi on the integers a shape or stride can hold here.
AtoiRange == -1..16
Itoa(v) == ToString(v)
Atoi(str) ==
    IF \E v \in AtoiRange : ToString(v) = str
    THEN Ok(CHOOSE v \in AtoiRange : ToString(v) = str)
    ELSE Err("invalid syntax")

\* intSliceToString: the text is the decimal parts joined by ","; it is kept as
\* the sequence of parts, <<>> being the empty string.
intSliceToString(slice) == [i \in 1..Len(slice) |-> Itoa(slice[i])]

\* A value put in front of the values parsed after it.
ConsParsed(v, rest) == IF ~rest.ok THEN rest ELSE Ok(<<v>> \o rest.val)

RECURSIVE parseParts(_)
parseParts(parts) ==
    LET ParsedPart(v, rest) ==
            IF ~v.ok THEN Err("error parsing part as int")
            ELSE ConsParsed(v.val, parseParts(rest))
    IN IF parts = <<>> THEN Ok(<<>>)
       ELSE IF Head(parts) = "" THEN Err("empty dimension string part")
       ELSE ParsedPart(Atoi(Head(parts)), Tail(parts))

parseIntSlice(parts) == IF parts = <<>> THEN Ok(<<>>) ELSE parseParts(parts)

\* The strides SaveTensor and loadTensorMetadataInternal compute when none are
\* given: the product before the first zero dimension decides.
RECURSIVE ProductBeforeZero(_)
ProductBeforeZero(shape) ==
    IF shape = <<>> \/ Head(shape) = 0 THEN 1
    ELSE Head(shape) * ProductBeforeZero(Tail(shape))

DefaultStrides(shape) ==
    IF Len(shape) = 0 THEN <<>>
    ELSE IF ProductBeforeZero(shape) > 0 \/ ~(\E i \in 1..Len(shape) : shape[i] = 0)
    THEN [i \in 1..Len(shape) |-> StrideAt(shape, i)]
    ELSE Zeros(Len(shape))

\* ------------------------------------------------- little-endian encoding
RECURSIVE LEBytes(_, _)
LEBytes(v, n) == IF n = 0 THEN <<>> ELSE <<v % 256>> \o LEBytes(v \div 256, n - 1)

\* Two's complement value of little-endian bytes.
RECURSIVE LESigned(_)
LESigned(b) ==
    IF Len(b) = 1 THEN (IF b[1] >= 128 THEN b[1] - 256 ELSE b[1])
    ELSE b[1] + 256 * LESigned(Tail(b))

RECURSIVE Pow2(_)
Pow2(n) == IF n = 0 THEN 1 ELSE 2 * Pow2(n - 1)
RECURSIVE FloorLog2(_)
FloorLog2(v) == IF v < 2 THEN 0 ELSE 1 + FloorLog2(v \div 2)

\* A float element is held as the integer it equals (|v| < 2^20). IEEE 754
\* binary32: sign, 8 exponent bits (bias 127), 23 fraction bits.
Float32Bytes(v) ==
    LET a == IF v < 0 THEN -v ELSE v
        e == FloorLog2(a)
        bits == IF a = 0 THEN 0 ELSE (e + 127) * Pow2(23) + (a - Pow2(e)) * Pow2(23 - e)
        b == LEBytes(bits, 4)
    IN IF v < 0 THEN [b EXCEPT ![4] = @ + 128] ELSE b

Float32FromBytes(b) ==
    LET bits == b[1] + 256 * b[2] + 65536 * b[3] + 16777216 * (b[4] % 128)
        exp == bits \div Pow2(23)
        frac == bits % Pow2(23)
        a == IF exp < 127 THEN 0
             ELSE IF exp - 127 <= 23 THEN (Pow2(23) + frac) \div Pow2(23 - (exp - 127))
             ELSE (Pow2(23) + frac)
    IN IF b[4] >= 128 THEN -a ELSE a

\* binary64: sign, 11 exponent bits (bias 1023), 52 fraction bits; for these
\* values the low four bytes are zero.
Float64Bytes(v) ==
    LET a == IF v < 0 THEN -v ELSE v
        e == FloorLog2(a)
        hi == IF a = 0 THEN 0 ELSE (e + 1023) * Pow2(20) + (a - Pow2(e)) * Pow2(20 - e)
        b == <<0, 0, 0, 0>> \o LEBytes(hi, 4)
    IN IF v < 0 THEN [b EXCEPT ![8] = @ + 128] ELSE b

Float64FromBytes(b) ==
    LET hi == b[5] + 256 * b[6] + 65536 * b[7] + 16777216 * (b[8] % 128)
        exp == hi \div Pow2(20)
        frac == hi % Pow2(20)
        a == IF exp < 1023 THEN 0
             ELSE IF exp - 1023 <= 20 THEN (Pow2(20) + frac) \div Pow2(20 - (exp - 1023))
             ELSE (Pow2(20) + frac)
    IN IF b[8] >= 128 THEN -a ELSE a

\* binary.Write / binary.Read of one element, little endian.
EncodeElem(kind, v) ==
    CASE kind = DataTypeFloat32 -> Float32Bytes(v)
      [] kind = DataTypeFloat64 -> Float64Bytes(v)
      [] kind = DataTypeInt32 -> LEBytes(v, 4)
      [] kind = DataTypeInt64 -> LEBytes(v, 8)

DecodeElem(kind, b) ==
    CASE kind = DataTypeFloat32 -> Float32FromBytes(b)
      [] kind = DataTypeFloat64 -> Float64FromBytes(b)
      [] kind = DataTypeInt32 -> LESigned(b)
      [] kind = DataTypeInt64 -> LESigned(b)

RECURSIVE Encode(_, _)
Encode(kind, values) ==
    IF values = <<>> THEN <<>>
    ELSE EncodeElem(kind, Head(values)) \o Encode(kind, Tail(values))

\* A reader that decodes every element from the first bytes.
Decode_First(kind, bytes, numElements) ==
    [i \in 1..numElements |-> DecodeElem(kind, SubSeq(bytes, 1, GetElementSize(kind)))]

Decode(kind, bytes, numElements) ==
    LET size == GetElementSize(kind)
    IN [i \in 1..numElements |-> DecodeElem(kind, SubSeq(bytes, (i - 1) * size + 1, i * size))]

\* ------------------------------------------------------- InMemoryIndex
NewInMemoryIndex == [ByDataType |-> EmptyMap, ByNumDimensions |-> EmptyMap]

\* The key Add, Remove and Rebuild file a shape under.
IndexNumDimensions(shape) ==
    IF Len(shape) = 1 /\ shape[1] = 0 THEN 0 ELSE Len(shape)

\* An index whose sets keep only the last name added.
AddToSet_Replace(m, k, name) == MapPut(m, k, {name})

AddToSet(m, k, name) == MapPut(m, k, (IF Has(m, k) THEN m[k] ELSE {}) \cup {name})

Add(ix, metadata) ==
    [ByDataType |-> AddToSet(ix.ByDataType, metadata.DataType, metadata.Name),
     ByNumDimensions |-> AddToSet(ix.ByNumDimensions,
                                  IndexNumDimensions(metadata.Shape), metadata.Name)]

\* A Remove that leaves the key of a set it emptied.
Remove_KeepKey(ix, metadata) ==
    [ByDataType |-> [k \in DOMAIN ix.ByDataType |->
                        IF k = metadata.DataType THEN ix.ByDataType[k] \ {metadata.Name}
                        ELSE ix.ByDataType[k]],
     ByNumDimensions |-> [k \in DOMAIN ix.ByNumDimensions |->
                             IF k = IndexNumDimensions(metadata.Shape)
                             THEN ix.ByNumDimensions[k] \ {metadata.Name}
                             ELSE ix.ByNumDimensions[k]]]

Remove(ix, metadata) ==
    LET Deleted(m, k, names) == IF names = {} THEN MapDel(m, k) ELSE MapPut(m, k, names)
        DeleteFrom(m, k) == IF Has(m, k) THEN Deleted(m, k, m[k] \ {metadata.Name}) ELSE m
    IN [ByDataType |-> DeleteFrom(ix.ByDataType, metadata.DataType),
        ByNumDimensions |-> DeleteFrom(ix.ByNumDimensions,
                                       IndexNumDimensions(metadata.Shape))]

\* Query: the set of names; the order of the returned slice is the iteration
\* order of a Go map. filterDataType "" and filterNumDimensions -1 do not filter.
Query(ix, filterDataType, filterNumDimensions) ==
    LET byType == filterDataType # ""
        byDims == filterNumDimensions # -1
    IN IF byType /\ ~Has(ix.ByDataType, filterDataType) THEN {}
       ELSE IF byDims /\ ~Has(ix.ByNumDimensions, filterNumDimensions) THEN {}
       ELSE IF ~byType /\ ~byDims
       THEN UNION {ix.ByDataType[k] : k \in DOMAIN ix.ByDataType}
       ELSE IF byType /\ ~byDims THEN ix.ByDataType[filterDataType]
       ELSE IF byDims /\ ~byType THEN ix.ByNumDimensions[filterNumDimensions]
       ELSE ix.ByDataType[filterDataType] \cap ix.ByNumDimensions[filterNumDimensions]

\* ------------------------------------------------------------- Storage
\* The data directory: name.meta holds lines <<key, value>> (the value of
\* shape and strides as its comma-separated parts), name.data holds bytes.
\* locked holds the names whose files the process may not write.
EmptyDir == [meta |-> EmptyMap, data |-> EmptyMap, locked |-> {}]

TensorMetadata(name, shape, dataType, strides) ==
    [Name |-> name, Shape |-> shape, DataType |-> dataType, Strides |-> strides]

\* The loop over the lines of a metadata file: tm holds Name ("" unset),
\* Shape and Strides (Nil unset) and DataType ("" unset).
RECURSIVE parseLines(_, _)
parseLines(lines, tm) ==
    LET ParsedShape(rest, sh) ==
            IF ~sh.ok THEN Err("invalid shape in metadata")
            ELSE parseLines(rest, [tm EXCEPT !.Shape = Some(sh.val)])
        ParsedStrides(rest, st) ==
            IF ~st.ok THEN Err("invalid strides in metadata")
            ELSE parseLines(rest, [tm EXCEPT !.Strides = Some(st.val)])
        ParsedLine(key, value, rest) ==
            CASE key = "name" -> parseLines(rest, [tm EXCEPT !.Name = value])
              [] key = "shape" -> ParsedShape(rest, parseIntSlice(value))
              [] key = "datatype" ->
                   IF GetElementSize(value) = 0 THEN Err("unsupported data type in metadata")
                   ELSE parseLines(rest, [tm EXCEPT !.DataType = value])
              [] key = "strides" -> ParsedStrides(rest, parseIntSlice(value))
              [] OTHER -> parseLines(rest, tm)
    IN IF lines = <<>> THEN Ok(tm)
       ELSE ParsedLine(Head(lines)[1], Head(lines)[2], Tail(lines))

loadTensorMetadataInternal(fsys, fileName) ==
    LET \* the checks after the loop: default strides stand in for missing ones
        CompleteMetadata(name, tm) ==
            IF tm.Shape = Nil \/ tm.DataType = "" \/ name = "" THEN Err("incomplete metadata")
            ELSE Ok(TensorMetadata(name, tm.Shape[1], tm.DataType,
                                   IF tm.Strides = Nil THEN DefaultStrides(tm.Shape[1])
                                   ELSE tm.Strides[1]))
        \* the file name stands in for a missing name
        ParsedMetadata(parsed) ==
            IF ~parsed.ok THEN parsed
            ELSE CompleteMetadata(IF parsed.val.Name = "" THEN fileName ELSE parsed.val.Name,
                                  parsed.val)
    IN IF ~Has(fsys.meta, fileName) THEN Err("failed to read metadata")
       ELSE ParsedMetadata(parseLines(fsys.meta[fileName],
                                      [Name |-> "", Shape |-> Nil, DataType |-> "",
                                       Strides |-> Nil]))

LoadTensorMetadata(fsys, name) == loadTensorMetadataInternal(fsys, name)

\* A rebuild that gives up, with an empty index, at a file that does not parse.
RECURSIVE Rebuild_Strict(_, _)
Rebuild_Strict(fsys, entries) ==
    IF \E d \in entries : ~loadTensorMetadataInternal(fsys, d).ok THEN NewInMemoryIndex
    ELSE IF entries = {} THEN NewInMemoryIndex
    ELSE Add(Rebuild_Strict(fsys, entries \ {CHOOSE d \in entries : TRUE}),
             [loadTensorMetadataInternal(fsys, CHOOSE d \in entries : TRUE).val
                 EXCEPT !.Name = CHOOSE d \in entries : TRUE])

\* InMemoryIndex.Rebuild as NewStorage calls it: the walk over the .meta files
\* entries of the directory, each filed under its file name when it loads (the
\* sets do not depend on the order of the walk).
RECURSIVE Rebuild(_, _)
Rebuild(fsys, entries) ==
    LET Filed(ix, tensorName, metadata) ==
            IF ~metadata.ok THEN ix
            ELSE [ByDataType |-> AddToSet(ix.ByDataType, metadata.val.DataType, tensorName),
                  ByNumDimensions |-> AddToSet(ix.ByNumDimensions,
                                               IndexNumDimensions(metadata.val.Shape),
                                               tensorName)]
        Walk(d) == Filed(Rebuild(fsys, entries \ {d}), d, loadTensorMetadataInternal(fsys, d))
    IN IF entries = {} THEN NewInMemoryIndex ELSE Walk(CHOOSE d \in entries : TRUE)

\* A save that creates the data file and leaves it empty.
SaveTensor_NoData(fsys, t, typeT) ==
    [fs |-> [fsys EXCEPT !.meta = MapPut(@, t.Name,
                                         << <<"name", t.Name>>,
                                            <<"shape", intSliceToString(t.Shape)>>,
                                            <<"datatype", t.DataType>>,
                                            <<"strides", intSliceToString(t.Strides)>> >>),
                         !.data = MapPut(@, t.Name, <<>>)],
     err |-> Nil]

\* SaveTensor[T]: the directory afterwards and the error (Nil for none).
SaveTensor(fsys, t, typeT) ==
    LET \* the data written after the metadata file and the emptied data file
        WriteData(written, dataSize, actualDataBytes) ==
            IF dataSize = 0 THEN [fs |-> written, err |-> Nil]
            ELSE IF Len(actualDataBytes) # dataSize
            THEN [fs |-> [written EXCEPT !.data = MapPut(@, t.Name, Zeros(dataSize))],
                  err |-> Some("data size mismatch during save")]
            ELSE [fs |-> [written EXCEPT !.data = MapPut(@, t.Name, actualDataBytes)],
                  err |-> Nil]
        \* numElements: the length of Data wins over a non-zero product of the shape
        SavedElements(fromShape) ==
            IF Len(t.Data) # fromShape /\ fromShape > 0 THEN Len(t.Data) ELSE fromShape
        WriteTensor(strides) ==
            WriteData([fsys EXCEPT !.meta = MapPut(@, t.Name,
                                                   << <<"name", t.Name>>,
                                                      <<"shape", intSliceToString(t.Shape)>>,
                                                      <<"datatype", t.DataType>>,
                                                      <<"strides", intSliceToString(strides)>> >>),
                                   !.data = MapPut(@, t.Name, <<>>)],
                      SavedElements(tNilaiTotalElemen(t.Shape)) * GetElementSize(t.DataType),
                      Encode(t.DataType, t.Data))
    IN IF t.DataType # typeT
       THEN [fs |-> fsys, err |-> Some("DataType does not match generic type")]
       ELSE IF t.Name \in fsys.locked
       THEN [fs |-> fsys, err |-> Some("failed to write metadata")]
       ELSE WriteTensor(IF Len(t.Strides) # Len(t.Shape) THEN DefaultStrides(t.Shape)
                        ELSE t.Strides)

\* ----------------------------------------------- files and mappings held
\* A handle is an open file with its mapping: [name, id]. mapped and opened are
\* the mappings and files the process holds; mmaps and openFiles are the
\* executor's tables (a nil mmap or file is Nil, a present one Some(handle)).
NewExecutor == [mmaps |-> EmptyMap, openFiles |-> EmptyMap, mapped |-> {}, opened |-> {}]

Handle(name, id) == [name |-> name, id |-> id]

\* OpenFileAndMmap, the handle being the one the system hands out.
OpenFileAndMmap(fsys, t, name, expectedTotalElements, elementSize, id) ==
    IF ~Has(fsys.data, name)
    THEN (IF expectedTotalElements = 0
          THEN [tab |-> t, file |-> Nil, mmap |-> Nil, err |-> Nil]
          ELSE [tab |-> t, file |-> Nil, mmap |-> Nil, err |-> Some("data file not found")])
    ELSE IF expectedTotalElements = 0
    THEN [tab |-> [t EXCEPT !.opened = @ \cup {Handle(name, id)}],
          file |-> Some(Handle(name, id)), mmap |-> Nil, err |-> Nil]
    ELSE IF Len(fsys.data[name]) # expectedTotalElements * elementSize
    THEN [tab |-> t, file |-> Nil, mmap |-> Nil, err |-> Some("data file size mismatch")]
    ELSE [tab |-> [t EXCEPT !.opened = @ \cup {Handle(name, id)},
                            !.mapped = @ \cup {Handle(name, id)}],
          file |-> Some(Handle(name, id)), mmap |-> Some(Handle(name, id)), err |-> Nil]

\* ReadData[T] on the bytes seen through the mapping (Nil for a nil mmap).
ReadData(mmapFile, numElements, dataTypeString) ==
    IF numElements = 0 THEN Ok(<<>>)
    ELSE IF mmapFile = Nil THEN Err("mmapFile is nil but numElements > 0")
    ELSE IF Len(mmapFile[1]) < numElements * GetElementSize(dataTypeString)
    THEN Err("mmap size is less than expected data size")
    ELSE Ok(Decode(dataTypeString, mmapFile[1], numElements))

\* ------------------------------------------------------------ Executor
\* Unmap and close what the tables hold for the name and delete the entries
\* (one critical section).
Release(t, name) ==
    [mmaps |-> MapDel(t.mmaps, name), openFiles |-> MapDel(t.openFiles, name),
     mapped |-> IF Has(t.mmaps, name) /\ t.mmaps[name] # Nil
                THEN t.mapped \ {t.mmaps[name][1]} ELSE t.mapped,
     opened |-> IF Has(t.openFiles, name) /\ t.openFiles[name] # Nil
                THEN t.opened \ {t.openFiles[name][1]} ELSE t.opened]

\* The handles a table holds (nil entries hold none).
Retained(table) == {table[n][1] : n \in {k \in DOMAIN table : table[k] # Nil}}

\* A close that releases nothing once an unmap or a close fails.
Close_GiveUp(t, mmapOrder, fileOrder, unmapFails, closeFails) ==
    IF Retained(t.mmaps) \cap unmapFails = {} /\ Retained(t.openFiles) \cap closeFails = {}
    THEN [tab |-> [mmaps |-> EmptyMap, openFiles |-> EmptyMap,
                   mapped |-> t.mapped \ Retained(t.mmaps),
                   opened |-> t.opened \ Retained(t.openFiles)],
          out |-> Ok("closed")]
    ELSE [tab |-> [t EXCEPT !.mmaps = EmptyMap, !.openFiles = EmptyMap],
          out |-> Err([text |-> "failed to unmap", name |-> ""])]

\* Executor.Close: the maps are ranged over in mmapOrder and fileOrder; Unmap
\* fails for the handles of unmapFails and Close for those of closeFails, which
\* stay mapped and open.
Close(t, mmapOrder, fileOrder, unmapFails, closeFails) ==
    LET Failing(order, table, fails) ==
            SelectSeq(order, LAMBDA n : table[n] # Nil /\ table[n][1] \in fails)
        overallErr(unmaps, closes) ==
            IF unmaps # <<>> THEN Err([text |-> "failed to unmap", name |-> unmaps[1]])
            ELSE IF closes # <<>>
            THEN Err([text |-> "failed to close file", name |-> closes[1]])
            ELSE Ok("closed")
    IN [tab |-> [mmaps |-> EmptyMap, openFiles |-> EmptyMap,
                 mapped |-> t.mapped \ (Retained(t.mmaps) \ unmapFails),
                 opened |-> t.opened \ (Retained(t.openFiles) \ closeFails)],
        out |-> overallErr(Failing(mmapOrder, t.mmaps, unmapFails),
                           Failing(fileOrder, t.openFiles, closeFails))]

\* e.mmaps[tensorName] = mmapInstance; e.openFiles[tensorName] = file.
StorePair(t, name, file, mmapInstance) ==
    [t EXCEPT !.mmaps = MapPut(@, name, mmapInstance), !.openFiles = MapPut(@, name, file)]

\* The bytes a mapping shows: the file's.
MappedBytes(fsys, mmapInstance) ==
    IF mmapInstance = Nil THEN Nil ELSE Some(fsys.data[mmapInstance[1].name])

\* The rest of loadFullTensorTyped once the pair is stored and the bytes read.
TensorFromData(t, name, metadata, read) ==
    LET TensorWithData(set) ==
            IF ~set.ok THEN [tab |-> Release(t, name), out |-> Err("failed to set data")]
            ELSE [tab |-> t, out |-> Ok([set.val EXCEPT !.Strides = metadata.Strides])]
        TensorMade(made) ==
            IF ~made.ok
            THEN [tab |-> Release(t, name), out |-> Err("failed to create tensor instance")]
            ELSE TensorWithData(SetData(made.val, read.val))
    IN IF ~read.ok THEN [tab |-> Release(t, name), out |-> Err("failed to read data")]
       ELSE TensorMade(NewTensor(metadata.Name, metadata.Shape, metadata.DataType,
                                 metadata.DataType))

\* The least id no handle of the name in use has.
FreshId(t, name) ==
    CHOOSE i \in 0..Cardinality(t.mapped \cup t.opened) :
        /\ Handle(name, i) \notin t.mapped \cup t.opened
        /\ \A j \in 0..(i - 1) : Handle(name, j) \in t.mapped \cup t.opened

\* loadFullTensorTyped[T] run without interleaving: [tab, out].
loadFullTensorTyped(fsys, t, tensorName, metadata) ==
    LET \* after OpenFileAndMmap returned o: the pair is stored and the data read
        Opened(totalElements, o) ==
            IF o.err # Nil THEN [tab |-> o.tab, out |-> Err("failed to open/mmap file")]
            ELSE TensorFromData(StorePair(o.tab, tensorName, o.file, o.mmap), tensorName,
                                metadata,
                                ReadData(MappedBytes(fsys, o.mmap), totalElements,
                                         metadata.DataType))
        \* after the first critical section left the tables as released
        Reopen(released, totalElements, elementSize) ==
            IF elementSize = 0 THEN [tab |-> released, out |-> Err("unsupported data type")]
            ELSE Opened(totalElements,
                        OpenFileAndMmap(fsys, released, tensorName, totalElements, elementSize,
                                        FreshId(released, tensorName)))
    IN Reopen(Release(t, tensorName), tNilaiTotalElemen(metadata.Shape),
              GetElementSize(metadata.DataType))

\* Executor.GetTensorMmap without interleaving: the pair of the name is
\* released, Storage.GetTensorMmap opens a new one under the handle id, and it
\* is stored and handed out: [tab, out].
GetTensorMmap(fsys, t, tensorName, id) ==
    LET Got(o) ==
            IF o.err # Nil THEN [tab |-> o.tab, out |-> Err("failed to open/mmap file")]
            ELSE [tab |-> StorePair(o.tab, tensorName, o.file, o.mmap),
                  out |-> Ok([name |-> tensorName, file |-> o.file, mmap |-> o.mmap])]
        Loaded(released, metadata) ==
            IF ~metadata.ok THEN [tab |-> released, out |-> Err("failed to load metadata")]
            ELSE IF GetElementSize(metadata.val.DataType) = 0
            THEN [tab |-> released, out |-> Err("failed to get element size")]
            ELSE Got(OpenFileAndMmap(fsys, released, tensorName,
                                     tNilaiTotalElemen(metadata.val.Shape),
                                     GetElementSize(metadata.val.DataType), id))
    IN Loaded(Release(t, tensorName), LoadTensorMetadata(fsys, tensorName))

\* ------------------------------------------------------------ arithmetic
ShapesEqual(s1, s2) == s1 = s2

\* The result tensor filled with the element-wise values.
Filled(made, values) == IF ~made.ok THEN made ELSE SetData(made.val, values)

\* An addition that hands back its first operand.
AddTensors_Left(t1, t2) == Ok([t1 EXCEPT !.Name = "temp_add_result"])

AddTensors(t1, t2) ==
    IF ~ShapesEqual(t1.Shape, t2.Shape) THEN Err("shapes differ")
    ELSE IF t1.DataType # t2.DataType THEN Err("data types differ")
    ELSE IF tNilaiTotalElemen(t1.Shape) = 0
    THEN NewTensor("temp_add_result", t1.Shape, t1.DataType, t1.DataType)
    ELSE Filled(NewTensor("temp_add_result", t1.Shape, t1.DataType, t1.DataType),
                [i \in 1..Len(t1.Data) |-> t1.Data[i] + t2.Data[i]])

AddScalarToTensor(t, scalar) ==
    IF tNilaiTotalElemen(t.Shape) = 0
    THEN NewTensor("temp_add_scalar_result", t.Shape, t.DataType, t.DataType)
    ELSE Filled(NewTensor("temp_add_scalar_result", t.Shape, t.DataType, t.DataType),
                [i \in 1..Len(t.Data) |-> t.Data[i] + scalar])

\* strconv.ParseInt / strconv.ParseFloat on the literals used here: decimal
\* integers for both, "1e0" for floats only.
LiteralRange == -1..9
ParseLiteral(dataType, sVal) ==
    IF \E v \in LiteralRange : ToString(v) = sVal
    THEN Ok(CHOOSE v \in LiteralRange : ToString(v) = sVal)
    ELSE IF sVal = "1e0" /\ dataType \in {DataTypeFloat32, DataTypeFloat64} THEN Ok(1)
    ELSE Err("invalid syntax")

RECURSIVE ParseAll(_, _)
ParseAll(dataType, strs) ==
    LET ParsedValue(v, rest) ==
            IF ~v.ok THEN Err("error parsing value")
            ELSE ConsParsed(v.val, ParseAll(dataType, rest))
    IN IF strs = <<>> THEN Ok(<<>>)
       ELSE ParsedValue(ParseLiteral(dataType, Head(strs)), Tail(strs))

\* ------------------------------------------------------------ Parser
\* A query text is the sequence of its whitespace-separated fields (strings.
\* Fields), each [kind, text, parts]: a "word" (one identifier), "digits"
\* (decimal digits only), "other" (a field holding no letter, as -1) or a
\* "slice" (a bracket, text its content: parts are the pieces between "," each
\* split at ":").
\* Parser.Parse for a text whose first field is GET: the Query, or the error.
Parse(parts) ==
    LET ToLower(str) ==
            CASE str = "GET" -> "get" [] str = "DATA" -> "data" [] str = "FROM" -> "from"
              [] str = "BATCH" -> "batch" [] OTHER -> str
        Lower(i) == IF parts[i].kind = "word" THEN ToLower(parts[i].text) ELSE parts[i].text
        \* one "lo:hi" piece of a slice
        Bound(bounds, start, end) ==
            IF ~start.ok THEN Err("invalid slice start")
            ELSE IF ~end.ok THEN Err("invalid slice end")
            ELSE IF start.val < 0 \/ end.val < start.val THEN Err("invalid slice range")
            ELSE Ok(<<start.val, end.val>>)
        RECURSIVE SliceParts(_)
        PutBound(b, rest) == IF ~b.ok THEN b ELSE ConsParsed(b.val, SliceParts(rest))
        SliceParts(sliceParts) ==
            IF sliceParts = <<>> THEN Ok(<<>>)
            ELSE IF Len(Head(sliceParts)) # 2 THEN Err("invalid slice format")
            ELSE PutBound(Bound(Head(sliceParts), Atoi(Head(sliceParts)[1]),
                                Atoi(Head(sliceParts)[2])),
                          Tail(sliceParts))
        AsSlice(parsed) == IF ~parsed.ok THEN parsed ELSE Ok(Some(parsed.val))
        \* currentTensorSlice of the match whose name is the field i of defs
        SliceOf(defs, i) ==
            IF i < Len(defs) /\ defs[i + 1].kind = "slice" /\ defs[i + 1].text # ""
            THEN AsSlice(SliceParts(defs[i + 1].parts))
            ELSE Ok(Nil)
        \* the loop over allMatches: [names, slices], or the first error
        RECURSIVE Matches(_, _, _, _)
        Matched(defs, i, names, slices, slice) ==
            IF ~slice.ok THEN slice
            ELSE Matches(defs, i + 1, Append(names, defs[i].text), Append(slices, slice.val))
        Matches(defs, i, names, slices) ==
            IF i > Len(defs) THEN Ok([names |-> names, slices |-> slices])
            ELSE IF defs[i].kind = "word" THEN Matched(defs, i, names, slices, SliceOf(defs, i))
            ELSE Matches(defs, i + 1, names, slices)
        Built(batchSize, m) ==
            IF ~m.ok THEN m
            ELSE IF Len(m.val.names) = 0 THEN Err("no valid tensor definitions found")
            ELSE Ok([Type |-> "GET DATA", TensorNames |-> m.val.names,
                     Slices |-> m.val.slices, BatchSize |-> batchSize])
        Definitions(tensorDefinitionsPart, batchSize) ==
            IF Len(tensorDefinitionsPart) = 0
            THEN (IF batchSize > 0 THEN Err("no tensor definitions found before 'BATCH'")
                  ELSE Err("no tensor definitions found in GET DATA FROM clause"))
            ELSE Built(batchSize, Matches(tensorDefinitionsPart, 1, <<>>, <<>>))
        Batch(afterFrom, batchSize) ==
            IF ~batchSize.ok \/ batchSize.val <= 0 THEN Err("invalid batch size")
            ELSE Definitions(SubSeq(afterFrom, 1, Len(afterFrom) - 2), batchSize.val)
        \* reBatch: white space, "batch", white space and digits end the text
        AfterFrom(afterFrom, n) ==
            IF /\ n >= 3 /\ afterFrom[n].kind = "digits"
               /\ afterFrom[n - 1].kind = "word" /\ ToLower(afterFrom[n - 1].text) = "batch"
            THEN Batch(afterFrom, Atoi(afterFrom[n].text))
            ELSE Definitions(afterFrom, 0)
        From(fromKeywordIndexOriginal) ==
            IF fromKeywordIndexOriginal + 1 > Len(parts)
            THEN Err("invalid GET DATA syntax: 'FROM' keyword missing or no tensor names")
            ELSE AfterFrom(SubSeq(parts, fromKeywordIndexOriginal + 1, Len(parts)),
                           Len(parts) - fromKeywordIndexOriginal)
    IN IF Len(parts) < 4 \/ Lower(2) # "data" \/ Lower(3) # "from"
       THEN Err("invalid GET DATA syntax: expected 'GET DATA FROM ...'")
       ELSE From(CHOOSE i \in 1..Len(parts) :
                    Lower(i) = "from" /\ \A j \in 1..(i - 1) : Lower(j) # "from")

\* ------------------------------------------------- Executor.Execute
\* Each query: the directory, index and tables afterwards and what Execute
\* returned.
Done(fsys, ix, t, out) == [fs |-> fsys, index |-> ix, tab |-> t, out |-> out]

\* The test CREATE and the math operations make on the error of the output
\* name's metadata: only a failed read lets the query go on.
MayProceed(checkErr) == checkErr = "failed to read metadata"

\* CREATE once the name is found free: the switch on query.DataType.
CreateNew(fsys, ix, t, tensorName, shape, dataType) ==
    LET Created(ti, saved) ==
            IF saved.err # Nil THEN Done(saved.fs, ix, t, Err(saved.err[1]))
            ELSE Done(saved.fs,
                      Add(ix, TensorMetadata(ti.Name, ti.Shape, ti.DataType, ti.Strides)),
                      t, Ok("created"))
        CreateMade(made) ==
            IF ~made.ok THEN Done(fsys, ix, t, made)
            ELSE Created(made.val, SaveTensor(fsys, made.val, dataType))
    IN IF dataType \notin Kinds THEN Done(fsys, ix, t, Err("unsupported data type"))
       ELSE CreateMade(NewTensor(tensorName, shape, dataType, dataType))

\* A CREATE that does not look for the name first.
ExecCreate_NoCheck(fsys, ix, t, tensorName, shape, dataType) ==
    CreateNew(fsys, ix, t, tensorName, shape, dataType)

ExecCreate(fsys, ix, t, tensorName, shape, dataType) ==
    LET CreateChecked(check) ==
            IF check.ok THEN Done(fsys, ix, t, Err("already exists"))
            ELSE IF ~MayProceed(check.err)
            THEN Done(fsys, ix, t, Err("error checking existing tensor"))
            ELSE CreateNew(fsys, ix, t, tensorName, shape, dataType)
    IN CreateChecked(LoadTensorMetadata(fsys, tensorName))

\* tempTensor, _ := NewTensor; tempTensor.SetData(typedData); SaveTensor(...):
\* the three results are dropped.
SaveInserted(fsys, metadata, typedData) ==
    LET TempTensor(made, set) == IF set.ok THEN set.val ELSE made.val
        TempMade(made) == TempTensor(made, SetData(made.val, typedData))
    IN SaveTensor(fsys,
                  TempMade(NewTensor(metadata.Name, metadata.Shape, metadata.DataType,
                                     metadata.DataType)),
                  metadata.DataType).fs

\* An INSERT that does not compare the number of elements it is given with the
\* number the shape asks for.
ExecInsert_NoCount(fsys, ix, t, tensorName, rawData, data) ==
    LET InsertParsed(metadata, typedData) ==
            IF ~typedData.ok THEN Done(fsys, ix, t, Err("error parsing value"))
            ELSE Done(SaveInserted(fsys, metadata, typedData.val), ix, t,
                      Ok("String data inserted"))
        InsertLoaded(loaded) ==
            IF ~loaded.ok THEN Done(fsys, ix, t, Err("not found for insert"))
            ELSE IF Len(rawData) > 0
            THEN Done(SaveInserted(fsys, loaded.val,
                                   Decode(loaded.val.DataType, rawData,
                                          Len(rawData) \div GetElementSize(loaded.val.DataType))),
                      ix, t, Ok("Raw data inserted"))
            ELSE InsertParsed(loaded.val, ParseAll(loaded.val.DataType, data))
    IN InsertLoaded(LoadTensorMetadata(fsys, tensorName))

\* An INSERT that empties the data file of the tensor before the checks that
\* make it fail.
ExecInsert_Emptying(fsys, ix, t, tensorName, rawData, data) ==
    LET Emptied(r) ==
            IF r.out.ok \/ ~Has(fsys.data, tensorName) THEN r
            ELSE [r EXCEPT !.fs = [fsys EXCEPT !.data = MapPut(@, tensorName, <<>>)]]
    IN Emptied(ExecInsert_NoCount(fsys, ix, t, tensorName, rawData, data))

ExecInsert(fsys, ix, t, tensorName, rawData, data) ==
    LET InsertParsed(metadata, typedData) ==
            IF ~typedData.ok THEN Done(fsys, ix, t, Err("error parsing value"))
            ELSE Done(SaveInserted(fsys, metadata, typedData.val), ix, t,
                      Ok("String data inserted"))
        \* once the metadata is loaded: raw data first, then the value list
        InsertInto(metadata, expectedElements, elementSize) ==
            IF Len(rawData) > 0
            THEN (IF elementSize = 0 THEN Done(fsys, ix, t, Err("element size is zero"))
                  ELSE IF Len(rawData) % elementSize # 0
                  THEN Done(fsys, ix, t,
                            Err("raw data size is not a multiple of element size"))
                  ELSE IF Len(rawData) \div elementSize # expectedElements
                  THEN Done(fsys, ix, t, Err("raw data element count"))
                  ELSE Done(SaveInserted(fsys, metadata,
                                         Decode(metadata.DataType, rawData,
                                                Len(rawData) \div elementSize)),
                            ix, t, Ok("Raw data inserted")))
            ELSE IF Len(data) = 0 /\ expectedElements = 0
            THEN Done(SaveInserted(fsys, metadata, <<>>), ix, t,
                      Ok("Data inserted (0 elements from string)"))
            ELSE IF Len(data) # expectedElements
            THEN Done(fsys, ix, t, Err("string data element count"))
            ELSE InsertParsed(metadata, ParseAll(metadata.DataType, data))
        InsertLoaded(loaded) ==
            IF ~loaded.ok THEN Done(fsys, ix, t, Err("not found for insert"))
            ELSE InsertInto(loaded.val, tNilaiTotalElemen(loaded.val.Shape),
                            GetElementSize(loaded.val.DataType))
    IN InsertLoaded(LoadTensorMetadata(fsys, tensorName))

\* SELECT name FROM name, with slice the first slice of the query (Nil for
\* none): the whole tensor is formatted, or the slice as a tensor of its own.
ExecSelect(fsys, ix, t, tensorName, slice) ==
    LET \* tempTensor after NewTensor and after SetData, whose errors are dropped
        Temp(made, set) == IF set.ok THEN set.val ELSE made.val
        SlicedTensor(tabAfter, made, slicedData) ==
            IF ~made.ok THEN Done(fsys, ix, tabAfter, Err("nil pointer dereference"))
            ELSE Done(fsys, ix, tabAfter,
                      Ok(FormatMultidimensional(Temp(made, SetData(made.val, slicedData)))))
        Sliced(tabAfter, tensorInstance, slicedData) ==
            IF ~slicedData.ok THEN Done(fsys, ix, tabAfter, Err("failed to slice"))
            ELSE SlicedTensor(tabAfter,
                              NewTensor("sliced_" \o tensorInstance.Name, SliceShape(slice[1]),
                                        tensorInstance.DataType, tensorInstance.DataType),
                              slicedData.val)
        Loaded(l) ==
            IF ~l.out.ok THEN Done(fsys, ix, l.tab, l.out)
            ELSE IF slice # Nil /\ Len(slice[1]) > 0
            THEN Sliced(l.tab, l.out.val, GetSlice(l.out.val, slice[1]))
            ELSE Done(fsys, ix, l.tab, Ok(FormatMultidimensional(l.out.val)))
        Found(metadata) ==
            IF ~metadata.ok THEN Done(fsys, ix, t, Err("not found for select"))
            ELSE IF metadata.val.DataType \notin Kinds
            THEN Done(fsys, ix, t, Err("unsupported data type for SELECT"))
            ELSE Loaded(loadFullTensorTyped(fsys, t, tensorName, metadata.val))
    IN Found(LoadTensorMetadata(fsys, tensorName))

\* One per-tensor task of GET DATA run to its end: [tab, out], out what the task
\* sends (Ok to resultChan, Err to errChan).
GetDataTask(fsys, t, tName, currentSlices, batchSize) ==
    LET TaskInferred(tabAfter, inf) ==
            IF ~inf.ok THEN [tab |-> tabAfter, out |-> Err("failed to get data for inference")]
            ELSE [tab |-> tabAfter, out |-> Ok(inf.val)]
        TaskLoaded(l) ==
            IF ~l.out.ok THEN [tab |-> l.tab, out |-> Err("failed to get data for inference")]
            ELSE TaskInferred(l.tab, GetDataForInference(l.out.val, currentSlices, batchSize))
        TaskMetadata(loaded) ==
            IF ~loaded.ok THEN [tab |-> t, out |-> Err("not found for get data")]
            ELSE TaskLoaded(loadFullTensorTyped(fsys, t, tName, loaded.val))
    IN TaskMetadata(LoadTensorMetadata(fsys, tName))

\* GET DATA of one name: a single task, then the single-name return.
ExecGetDataSingle(fsys, ix, t, tName, currentSlices, batchSize) ==
    LET SingleResult(task) ==
            IF ~task.out.ok
            THEN Done(fsys, ix, task.tab, Err("errors occurred during GET DATA"))
            ELSE Done(fsys, ix, task.tab, Ok(task.out.val))
    IN SingleResult(GetDataTask(fsys, t, tName, currentSlices, batchSize))

\* The tail of a math operation: save the result under the output name and
\* index it.
SaveResult(fsys, ix, t, result, outputName) ==
    LET ResultSaved(rt, saved) ==
            IF saved.err # Nil THEN Done(saved.fs, ix, t, Err("failed to save result tensor"))
            ELSE Done(saved.fs,
                      Add(ix, TensorMetadata(rt.Name, rt.Shape, rt.DataType, rt.Strides)),
                      t, Ok("created from operation"))
        SaveNamed(rt) == ResultSaved(rt, SaveTensor(fsys, rt, rt.DataType))
    IN SaveNamed([result EXCEPT !.Name = outputName])

\* What the operation returns for its result sum.
MathResult(fsys, ix, t, sum, outputName) ==
    IF ~sum.ok THEN Done(fsys, ix, t, sum)
    ELSE SaveResult(fsys, ix, t, sum.val, outputName)

\* A math operation that does not look for the output name first.
OutputCheck_Skip(fsys, outputName) == Nil

OutputCheck(fsys, outputName) ==
    LET OutputChecked(check) ==
            IF check.ok THEN Some("already exists")
            ELSE IF ~MayProceed(check.err) THEN Some("error checking existing output tensor")
            ELSE Nil
    IN OutputChecked(LoadTensorMetadata(fsys, outputName))

ExecAddTensors(fsys, ix, t, tensorAName, tensorBName, outputName) ==
    LET AddLoadedB(tA, tB) ==
            IF ~tB.out.ok THEN Done(fsys, ix, tB.tab, tB.out)
            ELSE MathResult(fsys, ix, tB.tab, AddTensors(tA.out.val, tB.out.val), outputName)
        AddLoadedA(tA, metaB) ==
            IF ~tA.out.ok THEN Done(fsys, ix, tA.tab, tA.out)
            ELSE AddLoadedB(tA, loadFullTensorTyped(fsys, tA.tab, tensorBName, metaB.val))
        AddTensorsChecked(refused, metaA, metaB) ==
            IF refused # Nil THEN Done(fsys, ix, t, Err(refused[1]))
            ELSE IF ~metaA.ok
            THEN Done(fsys, ix, t, Err("failed to load metadata for tensor A"))
            ELSE IF ~metaB.ok
            THEN Done(fsys, ix, t, Err("failed to load metadata for tensor B"))
            ELSE IF metaA.val.DataType # metaB.val.DataType
            THEN Done(fsys, ix, t, Err("data types do not match"))
            ELSE AddLoadedA(loadFullTensorTyped(fsys, t, tensorAName, metaA.val), metaB)
    IN AddTensorsChecked(OutputCheck(fsys, outputName),
                         LoadTensorMetadata(fsys, tensorAName),
                         LoadTensorMetadata(fsys, tensorBName))

ExecAddScalar(fsys, ix, t, tensorAName, scalarOperand, outputName) ==
    LET ScalarParsed(tA, scalarVal) ==
            IF ~scalarVal.ok
            THEN Done(fsys, ix, tA.tab, Err("failed to parse scalar operand"))
            ELSE MathResult(fsys, ix, tA.tab, AddScalarToTensor(tA.out.val, scalarVal.val),
                            outputName)
        ScalarLoadedA(tA, dataType) ==
            IF ~tA.out.ok THEN Done(fsys, ix, tA.tab, tA.out)
            ELSE ScalarParsed(tA, ParseLiteral(dataType, scalarOperand))
        AddScalarChecked(refused, metaA) ==
            IF refused # Nil THEN Done(fsys, ix, t, Err(refused[1]))
            ELSE IF scalarOperand = "" THEN Done(fsys, ix, t, Err("requires a scalar operand"))
            ELSE IF ~metaA.ok THEN Done(fsys, ix, t, Err("failed to load metadata for tensor"))
            ELSE ScalarLoadedA(loadFullTensorTyped(fsys, t, tensorAName, metaA.val),
                               metaA.val.DataType)
    IN AddScalarChecked(OutputCheck(fsys, outputName), LoadTensorMetadata(fsys, tensorAName))

\* LIST TENSORS, tensorNames being the slice QueryIndex returned.
RECURSIVE ListResults(_, _)
ListResults(fsys, tensorNames) ==
    LET ListOne(meta) == IF meta.ok THEN <<meta.val>> ELSE <<>>
    IN IF tensorNames = <<>> THEN <<>>
       ELSE ListOne(LoadTensorMetadata(fsys, Head(tensorNames)))
                \o ListResults(fsys, Tail(tensorNames))

\* The orders in which a Go map can hand out the names of a set.
Orders(names) ==
    {p \in [1..Cardinality(names) -> names] :
        \A i, j \in 1..Cardinality(names) : i # j => p[i] # p[j]}

\* ------------------------------------------------------------- SpecInfer
\* Shapes of rank 0, 1 and 2.
InferShapes == UNION {[1..r -> 0..MaxDim] : r \in 0..2}

\* Slice arguments: none, one pair per dimension, or a single pair (the
\* tolerated rank-0 / shape [1] forms and the rank mismatches).
InferRanges(shape) ==
    {Nil} \cup {Some(r) : r \in [1..Len(shape) -> (0..MaxDim) \X (0..MaxDim)]
                                  \cup [1..1 -> {<<0, 1>>, <<0, 0>>}]}
BatchSizes == 1..MaxBatch
InferKinds == {DataTypeFloat32, DataTypeInt64}

\* A loaded tensor whose i-th element (row-major) is i.
Iota(name, shape, kind) ==
    [Name |-> name, Shape |-> shape, Data |-> [i \in 1..tNilaiTotalElemen(shape) |-> i],
     DataType |-> kind, Strides |-> NewStrides(shape)]

\* The variables of the other specifications, at rest.
StoreIdle == fs = EmptyDir /\ index = NewInMemoryIndex /\ tab = NewExecutor
NoQuery == [op |-> "none", name |-> "", args |-> <<>>, out |-> Ok("")]
ExecIdle == res = NoQuery /\ lastBuf = EmptyMap /\ queries = 0 /\ view = Nil
InferIdle == fin = Nil /\ fout = Nil /\ fpc = "idle"
GetIdle ==
    /\ query = Nil /\ tasks = <<>> /\ errChan = <<>> /\ resultChan = <<>>
    /\ getOut = [state |-> "idle", out |-> Nil]

InferInit ==
    /\ StoreIdle /\ ExecIdle /\ GetIdle
    /\ \E shape \in InferShapes, kind \in InferKinds, batch \in BatchSizes :
         \E ranges \in InferRanges(shape) :
            fin = [t |-> Iota("t", shape, kind), ranges |-> ranges, batch |-> batch]
    /\ fout = [batched |-> Err("not called"), whole |-> Err("not called")]
    /\ fpc = "in"

\* GetDataForInference with the batch size given and with batch size 0.
InferCall ==
    /\ fpc = "in"
    /\ fout' = [batched |-> GetDataForInference(fin.t, fin.ranges, fin.batch),
                whole |-> GetDataForInference(fin.t, fin.ranges, 0)]
    /\ fpc' = "out"
    /\ UNCHANGED <<fin, storeVars, execVars, getVars>>

InferNext == InferCall

SpecInfer == InferInit /\ [][InferNext]_vars

\* ------------------------------------------------------------- SpecParse
\* The GET DATA texts parsed: GET DATA FROM and up to MaxFields fields, and
\* texts that lack DATA or FROM.
GetQueries ==
    LET Word(str) == [kind |-> "word", text |-> str, parts |-> <<>>]
        Digits(str) == [kind |-> "digits", text |-> str, parts |-> <<>>]
        Fields == {Word("a"), Word("b"), Word("BATCH"), Word("batch"),
                   Digits("0"), Digits("2"), Digits("99999999999999999999"),
                   [kind |-> "other", text |-> "-1", parts |-> <<>>],
                   [kind |-> "slice", text |-> "0:1", parts |-> << <<"0", "1">> >>],
                   [kind |-> "slice", text |-> "1:0", parts |-> << <<"1", "0">> >>],
                   [kind |-> "slice", text |-> "", parts |-> <<>>]}
        Rest == UNION {[1..n -> Fields] : n \in 0..MaxFields}
    IN {<<Word("GET"), Word("DATA"), Word("FROM")>> \o rest : rest \in Rest}
       \cup {<<Word("GET"), Word("DATA"), Word("a"), Word("b")>>,
             <<Word("get"), Word("a"), Word("FROM"), Word("b")>>}

ParseInit ==
    /\ StoreIdle /\ ExecIdle /\ GetIdle
    /\ fin \in GetQueries
    /\ fout = Err("not called")
    /\ fpc = "in"

ParseCall ==
    /\ fpc = "in"
    /\ fout' = Parse(fin)
    /\ fpc' = "out"
    /\ UNCHANGED <<fin, storeVars, execVars, getVars>>

SpecParse == ParseInit /\ [][ParseCall]_vars

\* ------------------------------------------------------------------ Spec
\* One executor on a new, empty data directory; Execute is called with one
\* query at a time.
Names == {"a", "b", "c"}
\* The shapes and kinds CREATE is asked for.
QueryTensors == {<< <<2>>, DataTypeFloat32 >>, << <<0>>, DataTypeFloat32 >>,
                 << <<>>, DataTypeInt64 >>, << <<2>>, "bool" >>}
\* INSERT ... VALUES lists and the buffers a client sends as raw data.
QueryData == {<<>>, <<"2">>, <<"1", "2">>, <<"1e0", "0">>, <<"x">>}
RawBuffers == {<<3>>, <<-1, 3>>}
QuerySlices == {Nil, Some(<< <<0, 1>> >>), Some(<< <<0, 1>>, <<0, 2>> >>)}
QueryScalars == {"1", "x"}

Init ==
    /\ fs = EmptyDir
    /\ index = NewInMemoryIndex
    /\ tab = NewExecutor
    /\ res = NoQuery
    /\ lastBuf = EmptyMap
    /\ queries = 0
    /\ view = Nil
    /\ InferIdle /\ GetIdle

\* The history of INSERTs after one more succeeded.
Inserted(name, typedData) ==
    MapPut(lastBuf, name,
           [data |-> typedData,
            prev |-> IF Has(lastBuf, name) THEN Some(lastBuf[name].data) ELSE Nil])

\* The query ran: r is what Execute left and returned.
Ran(op, name, args, r) ==
    /\ queries < MaxQueries
    /\ queries' = queries + 1
    /\ fs' = r.fs
    /\ index' = r.index
    /\ tab' = r.tab
    /\ res' = [op |-> op, name |-> name, args |-> args, out |-> r.out]

Create ==
    \E name \in Names, q \in QueryTensors :
        /\ Ran("CREATE", name, q, ExecCreate(fs, index, tab, name, q[1], q[2]))
        /\ UNCHANGED <<lastBuf, view, inferVars, getVars>>

\* An INSERT ran: the history gains typedData when it succeeded.
RanInsert(name, rawData, data, r, typedData) ==
    /\ Ran("INSERT", name, <<rawData, data>>, r)
    /\ lastBuf' = IF r.out.ok THEN Inserted(name, typedData) ELSE lastBuf
    /\ UNCHANGED <<view, inferVars, getVars>>

InsertString ==
    \E name \in Names, data \in QueryData :
        RanInsert(name, <<>>, data, ExecInsert(fs, index, tab, name, <<>>, data),
                  ParseAll(LoadTensorMetadata(fs, name).val.DataType, data).val)

\* The buffer is the encoding of values in the tensor's kind when there is such
\* a tensor, or one byte short of it.
InsertRaw ==
    \E name \in Names, values \in RawBuffers, kind \in Kinds, short \in BOOLEAN :
        LET RawData(bytes) == IF short THEN Tail(bytes) ELSE bytes
            RawKind(loaded) == loaded.ok => kind = loaded.val.DataType
        IN /\ RawKind(LoadTensorMetadata(fs, name))
           /\ RanInsert(name, RawData(Encode(kind, values)), <<>>,
                        ExecInsert(fs, index, tab, name, RawData(Encode(kind, values)), <<>>),
                        values)

GetData ==
    \E name \in Names, slice \in QuerySlices, batchSize \in {0, 1} :
        /\ Ran("GET DATA", name, <<slice, batchSize>>,
               ExecGetDataSingle(fs, index, tab, name, slice, batchSize))
        /\ UNCHANGED <<lastBuf, view, inferVars, getVars>>

MathAddTensors ==
    \E a \in Names, b \in Names, output \in Names :
        /\ Ran("ADD_TENSORS", output, <<a, b>>, ExecAddTensors(fs, index, tab, a, b, output))
        /\ UNCHANGED <<lastBuf, view, inferVars, getVars>>

MathAddScalar ==
    \E a \in Names, scalar \in QueryScalars, output \in Names :
        /\ Ran("ADD_SCALAR", output, <<a, scalar>>, ExecAddScalar(fs, index, tab, a, scalar, output))
        /\ UNCHANGED <<lastBuf, view, inferVars, getVars>>

List ==
    \E tensorNames \in Orders(Query(index, "", -1)) :
        /\ Ran("LIST", "", <<>>, Done(fs, index, tab, Ok(ListResults(fs, tensorNames))))
        /\ UNCHANGED <<lastBuf, view, inferVars, getVars>>

Next ==
    \/ Create
    \/ InsertString
    \/ InsertRaw
    \/ GetData
    \/ MathAddTensors
    \/ MathAddScalar
    \/ List

Spec == Init /\ [][Next]_vars

\* ------------------------------------------------------------ SpecShapes
\* The executor after CREATE TENSOR a and CREATE TENSOR b of rank 2 ran on an
\* empty directory; the queries of Spec and LIST with filters follow.
ShapesInit ==
    /\ \E qa, qb \in {<< <<1, 2>>, DataTypeFloat32 >>, << <<1, 2>>, DataTypeInt64 >>,
                       << <<2, 1>>, DataTypeFloat32 >>, << <<2, 0>>, DataTypeFloat32 >>,
                       << <<0, 2>>, DataTypeFloat32 >>} :
          LET Second(r) ==
                  /\ fs = r.fs /\ index = r.index /\ tab = r.tab
                  /\ res = [op |-> "CREATE", name |-> "b", args |-> qb, out |-> r.out]
              First(r) == Second(ExecCreate(r.fs, r.index, r.tab, "b", qb[1], qb[2]))
          IN First(ExecCreate(EmptyDir, NewInMemoryIndex, NewExecutor, "a", qa[1], qa[2]))
    /\ lastBuf = EmptyMap
    /\ queries = 2
    /\ view = Nil
    /\ InferIdle /\ GetIdle

\* LIST TENSORS WHERE DATATYPE = ... and/or NUM_DIMENSIONS = ... ("" and -1
\* for a filter that is not given).
ListWhere ==
    \E filterDataType \in {"", DataTypeFloat32, DataTypeInt64},
       filterNumDimensions \in {-1, 0, 1, 2} :
        /\ filterDataType # "" \/ filterNumDimensions # -1
        /\ \E tensorNames \in Orders(Query(index, filterDataType, filterNumDimensions)) :
              Ran("LIST WHERE", "", <<filterDataType, filterNumDimensions>>,
                  Done(fs, index, tab, Ok(ListResults(fs, tensorNames))))
        /\ UNCHANGED <<lastBuf, view, inferVars, getVars>>

\* Executor.Close, some of whose unmaps and closes fail.
ExecutorClose ==
    \E mmapOrder \in Orders(DOMAIN tab.mmaps), fileOrder \in Orders(DOMAIN tab.openFiles),
       unmapFails \in SUBSET Retained(tab.mmaps), closeFails \in SUBSET Retained(tab.openFiles) :
        LET Closed(r) ==
                Ran("CLOSE", "", <<mmapOrder, fileOrder, unmapFails, closeFails>>,
                    Done(fs, index, r.tab, r.out))
        IN /\ Closed(Close(tab, mmapOrder, fileOrder, unmapFails, closeFails))
           /\ UNCHANGED <<lastBuf, view, inferVars, getVars>>

Select ==
    \E name \in Names, slice \in QuerySlices :
        /\ Ran("SELECT", name, slice, ExecSelect(fs, index, tab, name, slice))
        /\ UNCHANGED <<lastBuf, view, inferVars, getVars>>

\* Client.GetTensorMmap: the view and its disposer are handed out. The handle
\* the system hands out is one no earlier mapping of the process had.
MmapAccess ==
    \E name \in Names :
        LET Accessed(r) ==
                /\ Ran("MMAP", name, <<>>, Done(fs, index, r.tab, r.out))
                /\ view' = IF r.out.ok THEN Some(r.out.val) ELSE Nil
        IN /\ view = Nil
           /\ Accessed(GetTensorMmap(fs, tab, name, 100 + queries))
           /\ UNCHANGED <<lastBuf, inferVars, getVars>>

\* The disposer (cleanupFunc) of the view handed out is called: it unmaps and
\* closes what the tables hold for the name; args keeps the view disposed of.
Dispose ==
    /\ view # Nil
    /\ Ran("DISPOSE", view[1].name, view[1],
           Done(fs, index, Release(tab, view[1].name), Ok("disposed")))
    /\ view' = Nil
    /\ UNCHANGED <<lastBuf, inferVars, getVars>>

ShapesNext ==
    \/ Next
    \/ ListWhere
    \/ ExecutorClose
    \/ MmapAccess
    \/ Dispose
    \/ Select

SpecShapes == ShapesInit /\ [][ShapesNext]_vars

\* -------------------------------------------------------------- SpecOpen
\* NewStorage and NewExecutor on a directory written by hand. a.meta has or
\* lacks each line, its strides are absent, those of the shape, or three;
\* a.data is absent, empty or eight bytes; b is absent or a float32 tensor of
\* shape [2]; the files of a may be ones the process cannot write. One query
\* or call follows.
OpenInit ==
    /\ \E name \in {Nil, Some("a")},
          shape \in {Nil, Some(<<>>), Some(<<0>>), Some(<<2>>), Some(<<2, 0>>),
                     Some(<<0, 2>>)},
          datatype \in {Nil, Some(DataTypeFloat32), Some("bool")},
          strides \in {"none", "own", "long"},
          data \in {Nil, Some(<<>>), Some(Zeros(8))},
          other \in BOOLEAN, locked \in SUBSET {"a"} :
          LET Line(key, value) == IF value = Nil THEN <<>> ELSE << <<key, value[1]>> >>
              Strides == CASE strides = "none" \/ shape = Nil -> Nil
                           [] strides = "own" -> Some(intSliceToString(NewStrides(shape[1])))
                           [] OTHER -> Some(<<"1", "1", "1">>)
              Shape == IF shape = Nil THEN Nil ELSE Some(intSliceToString(shape[1]))
              A == [meta |-> MapPut(EmptyMap, "a",
                                    Line("name", name) \o Line("shape", Shape)
                                    \o Line("datatype", datatype) \o Line("strides", Strides)),
                    data |-> IF data = Nil THEN EmptyMap ELSE MapPut(EmptyMap, "a", data[1]),
                    locked |-> locked]
              B == [A EXCEPT !.meta = MapPut(@, "b", << <<"name", "b">>, <<"shape", <<"2">> >>,
                                                        <<"datatype", DataTypeFloat32>>,
                                                        <<"strides", <<"1">> >> >>),
                             !.data = MapPut(@, "b", Zeros(8))]
          IN /\ locked # {} =>
                   name # Nil /\ shape # Nil /\ datatype = Some(DataTypeFloat32)
                   /\ strides = "own"
             /\ fs = IF other THEN B ELSE A
    /\ index = Rebuild(fs, DOMAIN fs.meta)
    /\ tab = NewExecutor
    /\ res = [op |-> "OPEN", name |-> "", args |-> <<>>, out |-> Ok("opened")]
    /\ lastBuf = EmptyMap
    /\ queries = MaxQueries - 1
    /\ view = Nil
    /\ InferIdle /\ GetIdle

\* SaveTensor[float32] called with a tensor value as a caller may build it.
Save ==
    \E shape \in {<<>>, <<0>>, <<2>>, <<2, 0>>},
       data \in {<<>>, <<1>>, <<1, 2>>, <<1, 2, 3>>},
       strides \in {"none", "own", "long"} :
        LET t == [Name |-> "c", Shape |-> shape, Data |-> data, DataType |-> DataTypeFloat32,
                  Strides |-> CASE strides = "none" -> <<>>
                                [] strides = "own" -> NewStrides(shape)
                                [] OTHER -> <<1, 1, 1>>]
            Saved(r) ==
                Ran("SAVE", "c", t,
                    Done(r.fs, index, tab, IF r.err = Nil THEN Ok("saved") ELSE Err(r.err[1])))
        IN /\ Saved(SaveTensor(fs, t, DataTypeFloat32))
           /\ UNCHANGED <<lastBuf, view, inferVars, getVars>>

\* Storage.RemoveTensorFromIndex with the metadata of a tensor of the store.
RemoveTensorFromIndex ==
    \E name \in Names :
        /\ LoadTensorMetadata(fs, name).ok
        /\ Ran("REMOVE", name, <<>>,
               Done(fs, Remove(index, LoadTensorMetadata(fs, name).val), tab, Ok("removed")))
        /\ UNCHANGED <<lastBuf, view, inferVars, getVars>>

\* The process ends and another opens the directory.
Reopen ==
    /\ res.op # "OPEN"
    /\ res' = [op |-> "OPEN", name |-> "", args |-> <<>>, out |-> Ok("opened")]
    /\ index' = Rebuild(fs, DOMAIN fs.meta)
    /\ tab' = NewExecutor
    /\ UNCHANGED <<fs, lastBuf, queries, view, inferVars, getVars>>

OpenNext ==
    \/ Next
    \/ Select
    \/ ListWhere
    \/ Save
    \/ RemoveTensorFromIndex
    \/ Reopen

SpecOpen == OpenInit /\ [][OpenNext]_vars

\* --------------------------------------------------------------- SpecGet
\* The goroutines of one GET DATA query (Executor.Execute, GetDataTensorQuery):
\* one per name, each stepping through loadFullTensorTyped between its
\* critical sections.
MaxTasks == 3

\* The data directory: float32 tensors a and b of two elements, a tensor cut
\* whose data file lost its second element, and no tensor none.
GetNames == {"a", "b", "cut", "none"}

GetDir ==
    LET Stored(name, values) ==
            SetData(NewTensor(name, <<2>>, DataTypeFloat32, DataTypeFloat32).val, values).val
        Saved(fsys, name, values) == SaveTensor(fsys, Stored(name, values), DataTypeFloat32).fs
    IN [Saved(Saved(Saved(EmptyDir, "a", <<1, 2>>), "b", <<3, 4>>), "cut", <<5, 6>>)
            EXCEPT !.data["cut"] = SubSeq(@, 1, 4)]

GetIndex ==
    Add(Add(Add(NewInMemoryIndex, LoadTensorMetadata(GetDir, "a").val),
            LoadTensorMetadata(GetDir, "b").val),
        LoadTensorMetadata(GetDir, "cut").val)

\* The executor is new, or has read tensor a before.
GetTables ==
    {NewExecutor,
     loadFullTensorTyped(GetDir, NewExecutor, "a", LoadTensorMetadata(GetDir, "a").val).tab}

\* query.Slices: nil, or per name nil or its ranges.
GetSlices ==
    {Nil,
     Some(<< Some(<< <<0, 1>> >>) >>),
     Some(<< Some(<< <<0, 3>> >>) >>),
     Some(<< Nil, Some(<< <<1, 2>> >>) >>)}

\* The goroutine func(idx, tName, currentSlicesForThisTensor) before its first
\* statement; sent is what it published in the end.
NewTask ==
    [pc |-> "start", metadata |-> Nil, file |-> Nil, mmap |-> Nil, tensor |-> Nil,
     sent |-> Nil]

GetInit ==
    /\ InferIdle /\ ExecIdle
    /\ fs = GetDir
    /\ index = GetIndex
    /\ tab \in GetTables
    /\ \E k \in 1..MaxTasks :
         \E names \in [1..k -> GetNames], slices \in GetSlices, batchSize \in {0, 1} :
            /\ query = [TensorNames |-> names, Slices |-> slices, BatchSize |-> batchSize]
            /\ tasks = [i \in 1..k |-> NewTask]
    /\ errChan = <<>>
    /\ resultChan = <<>>
    /\ getOut = [state |-> "running", out |-> Nil]

\* currentTensorSlices for the goroutine of index idx (0-based).
currentTensorSlices(q, idx) ==
    IF q.Slices # Nil /\ idx < Len(q.Slices[1]) THEN q.Slices[1][idx + 1] ELSE Nil

tName(i) == query.TensorNames[i]

Running(i, pc) == getOut.state = "running" /\ tasks[i].pc = pc

\* errChan <- fmt.Errorf(...); return
SendErr(i, text) ==
    /\ errChan' = Append(errChan, [tensor |-> tName(i), text |-> text])
    /\ tasks' = [tasks EXCEPT ![i].pc = "done",
                              ![i].sent = Some(Err([tensor |-> tName(i), text |-> text]))]
    /\ UNCHANGED resultChan

\* resultChan <- {index: idx, data: typedResults}
SendResult(i, typedResults) ==
    /\ resultChan' = Append(resultChan, [index |-> i - 1, data |-> typedResults])
    /\ tasks' = [tasks EXCEPT ![i].pc = "done", ![i].sent = Some(Ok(typedResults))]
    /\ UNCHANGED errChan

\* metadata, errMeta := e.storage.LoadTensorMetadata(tName)
TaskLoadMetadata ==
    \E i \in DOMAIN tasks :
        /\ Running(i, "start")
        /\ LET LoadedMetadata(loaded) ==
                   IF ~loaded.ok THEN SendErr(i, "not found for get data")
                   ELSE /\ tasks' = [tasks EXCEPT ![i].pc = "release",
                                                  ![i].metadata = Some(loaded.val)]
                        /\ UNCHANGED <<errChan, resultChan>>
           IN LoadedMetadata(LoadTensorMetadata(fs, tName(i)))
        /\ UNCHANGED <<storeVars, query, getOut, inferVars, execVars>>

\* The first critical section of loadFullTensorTyped.
TaskRelease ==
    \E i \in DOMAIN tasks :
        /\ Running(i, "release")
        /\ tab' = Release(tab, tName(i))
        /\ tasks' = [tasks EXCEPT ![i].pc = "open"]
        /\ UNCHANGED <<fs, index, query, errChan, resultChan, getOut, inferVars, execVars>>

\* GetElementSize and OpenFileAndMmap, outside the lock; the handle of the
\* goroutine of index i - 1 has id i.
TaskOpen ==
    \E i \in DOMAIN tasks :
        /\ Running(i, "open")
        /\ LET OpenedBy(o) ==
                   /\ tab' = o.tab
                   /\ IF o.err # Nil THEN SendErr(i, "failed to get data for inference")
                      ELSE /\ tasks' = [tasks EXCEPT ![i].pc = "store", ![i].file = o.file,
                                                     ![i].mmap = o.mmap]
                           /\ UNCHANGED <<errChan, resultChan>>
               OpenFor(totalElements, elementSize) ==
                   IF elementSize = 0
                   THEN SendErr(i, "failed to get data for inference") /\ UNCHANGED tab
                   ELSE OpenedBy(OpenFileAndMmap(fs, tab, tName(i), totalElements,
                                                 elementSize, i))
           IN OpenFor(tNilaiTotalElemen(tasks[i].metadata[1].Shape),
                      GetElementSize(tasks[i].metadata[1].DataType))
        /\ UNCHANGED <<fs, index, query, getOut, inferVars, execVars>>

\* The second critical section: the pair is stored over whatever is there.
TaskStore ==
    \E i \in DOMAIN tasks :
        /\ Running(i, "store")
        /\ tab' = StorePair(tab, tName(i), tasks[i].file, tasks[i].mmap)
        /\ tasks' = [tasks EXCEPT ![i].pc = "read"]
        /\ UNCHANGED <<fs, index, query, errChan, resultChan, getOut, inferVars, execVars>>

\* ReadData dereferences the mapping when there are elements to read; the
\* mapping dangles when another goroutine has unmapped it.
Dangling(i) ==
    /\ tNilaiTotalElemen(tasks[i].metadata[1].Shape) > 0
    /\ tasks[i].mmap # Nil
    /\ tasks[i].mmap[1] \notin tab.mapped

\* The tensor is built from what was read, or the pair is released again.
ReadFrom(i, mmapFile) ==
    LET ReadBy(l) ==
            /\ tab' = l.tab
            /\ IF ~l.out.ok THEN SendErr(i, "failed to get data for inference")
               ELSE /\ tasks' = [tasks EXCEPT ![i].pc = "infer",
                                              ![i].tensor = Some(l.out.val)]
                    /\ UNCHANGED <<errChan, resultChan>>
    IN ReadBy(TensorFromData(tab, tName(i), tasks[i].metadata[1],
                             ReadData(mmapFile, tNilaiTotalElemen(tasks[i].metadata[1].Shape),
                                      tasks[i].metadata[1].DataType)))

\* ReadData, NewTensor, SetData on a mapping that is still mapped.
TaskRead ==
    \E i \in DOMAIN tasks :
        /\ Running(i, "read")
        /\ ~Dangling(i)
        /\ ReadFrom(i, MappedBytes(fs, tasks[i].mmap))
        /\ UNCHANGED <<fs, index, query, getOut, inferVars, execVars>>

\* What n bytes at the address of a mapping of a file show: the file's bytes,
\* then the zeros that fill its last page.
PageView(bytes, n) ==
    IF Len(bytes) >= n THEN SubSeq(bytes, 1, n) ELSE bytes \o Zeros(n - Len(bytes))

\* ReadData on a dangling mapping whose address another mapping of the process
\* has taken: its bytes are read.
TaskReadUnmapped ==
    \E i \in DOMAIN tasks :
        /\ Running(i, "read")
        /\ Dangling(i)
        /\ \E h \in tab.mapped :
              ReadFrom(i, Some(PageView(fs.data[h.name],
                                        tNilaiTotalElemen(tasks[i].metadata[1].Shape)
                                            * GetElementSize(tasks[i].metadata[1].DataType))))
        /\ UNCHANGED <<fs, index, query, getOut, inferVars, execVars>>

\* ReadData on a dangling mapping whose address nothing has taken: the fault
\* ends the process.
TaskCrash ==
    \E i \in DOMAIN tasks :
        /\ Running(i, "read")
        /\ Dangling(i)
        /\ getOut' = [state |-> "crashed", out |-> Nil]
        /\ UNCHANGED <<storeVars, query, tasks, errChan, resultChan, inferVars, execVars>>

\* GetDataForInference, then the send on resultChan or errChan.
TaskPublish ==
    \E i \in DOMAIN tasks :
        /\ Running(i, "infer")
        /\ LET Published(inf) ==
                   IF ~inf.ok THEN SendErr(i, "failed to get data for inference")
                   ELSE SendResult(i, inf.val)
           IN Published(GetDataForInference(tasks[i].tensor[1],
                                            currentTensorSlices(query, i - 1),
                                            query.BatchSize))
        /\ UNCHANGED <<storeVars, query, getOut, inferVars, execVars>>

\* A join that keeps the first error only.
JoinErrors_First(multiErr) ==
    [text |-> "errors occurred during GET DATA", parts |-> SubSeq(multiErr, 1, 1)]

\* "errors occurred during GET DATA: " + strings.Join(multiErr, "; "), kept as
\* the sequence of the parts joined.
JoinErrors(multiErr) ==
    [text |-> "errors occurred during GET DATA", parts |-> multiErr]

\* allResultsNonGeneric after the loop over resultChan; a nil entry has
\* length 0.
RECURSIVE AllResults(_, _)
AllResults(all, results) ==
    IF results = <<>> THEN all
    ELSE AllResults([all EXCEPT ![Head(results).index + 1] = Head(results).data],
                    Tail(results))

\* What Execute returns after wg.Wait().
GetDataReturn(fsys, names, multiErr, results) ==
    LET \* the return for a query of one name
        SingleReturn(first) ==
            IF Len(first) > 0 THEN Ok(first)
            ELSE IF ~LoadTensorMetadata(fsys, names[1]).ok
            THEN Err("no data returned and tensor not found")
            ELSE Ok(<<>>)
        Assembled(allResultsNonGeneric) ==
            IF Len(names) = 1 THEN SingleReturn(allResultsNonGeneric[1])
            ELSE Ok(allResultsNonGeneric)
    IN IF Len(multiErr) > 0 THEN Err(JoinErrors(multiErr))
       ELSE Assembled(AllResults([i \in 1..Len(names) |-> <<>>], results))

Return ==
    /\ getOut.state = "running"
    /\ \A i \in DOMAIN tasks : tasks[i].pc = "done"
    /\ getOut' = [state |-> "returned",
                  out |-> GetDataReturn(fs, query.TensorNames, errChan, resultChan)]
    /\ UNCHANGED <<storeVars, query, tasks, errChan, resultChan, inferVars, execVars>>

GetNext ==
    \/ TaskLoadMetadata
    \/ TaskRelease
    \/ TaskOpen
    \/ TaskStore
    \/ TaskRead
    \/ TaskReadUnmapped
    \/ TaskCrash
    \/ TaskPublish
    \/ Return

SpecGet == GetInit /\ [][GetNext]_vars

\* The scheduler runs every goroutine that can take a step, and wg.Wait()
\* returns once the counter is zero: a step that stays possible is taken.
\* The queries of at most two names without slices or batches.
GetFairInit ==
    /\ GetInit
    /\ Len(query.TensorNames) <= 2
    /\ query.Slices = Nil
    /\ query.BatchSize = 0

SpecGetFair == GetFairInit /\ [][GetNext]_vars /\ WF_vars(GetNext)

\* ------------------------------------------------ properties of SpecInfer
RECURSIVE ConcatData(_)
ConcatData(envs) ==
    IF envs = <<>> THEN <<>> ELSE Head(envs).Data \o ConcatData(Tail(envs))

\* The envelopes in ascending current_batch_index (as returned when they carry
\* no batch info).
ByBatchIndex(envs) ==
    IF \A k \in 1..Len(envs) : \E i \in 1..Len(envs) :
           envs[i].BatchInfo # Nil /\ envs[i].BatchInfo[1].CurrentBatchIndex = k - 1
    THEN [k \in 1..Len(envs) |->
            envs[CHOOSE i \in 1..Len(envs) : envs[i].BatchInfo[1].CurrentBatchIndex = k - 1]]
    ELSE envs

\* The shape and size of the selection the inputs ask for.
FinShape == IF fin.ranges = Nil THEN fin.t.Shape ELSE SliceShape(fin.ranges[1])
FinTotal == tNilaiTotalElemen(FinShape)
\* The least n with n * batch >= FinTotal.
FinNumBatches == CHOOSE n \in 1..(FinTotal + 1) :
                    n * fin.batch >= FinTotal /\ (n - 1) * fin.batch < FinTotal

\* C5: for every selection and batch size S > 0, the data of the batched
\* envelopes concatenated in ascending current_batch_index is the data of the
\* single envelope of the unbatched call on the same selection (and the two
\* calls fail together).
C5_BatchedConcatIsUnbatched ==
    fpc = "out" =>
        /\ fout.batched.ok = fout.whole.ok
        /\ fout.whole.ok =>
              /\ Len(fout.whole.val) = 1
              /\ ConcatData(ByBatchIndex(fout.batched.val)) = fout.whole.val[1].Data

C5_Witness ==
    /\ fpc = "out" /\ fout.batched.ok /\ fin.ranges # Nil
    /\ Len(fout.batched.val) >= 2
    /\ FinTotal % fin.batch # 0

\* C6: GET DATA with BATCH n > 0 on a selection of zero elements returns exactly
\* one envelope with empty data and batch_info = {n, 1, 0}.
C6_ZeroSelectionBatchInfo ==
    (fpc = "out" /\ fout.batched.ok /\ FinTotal = 0) =>
        /\ Len(fout.batched.val) = 1
        /\ fout.batched.val[1].Data = <<>>
        /\ fout.batched.val[1].BatchInfo = Some(BatchInfo(fin.batch, 1, 0))

\* C7: for a selection of T > 0 elements and batch size S > 0 the call returns
\* ceil(T/S) envelopes; the k-th has batch_info {S, num_batches, k}, carries the
\* window [k*S, min((k+1)*S, T)) of the selection, has data_size_bytes =
\* window length * element size, and repeats the selection's shape, strides,
\* kind and total_elements = T.
C7_BatchEnvelopes ==
    (fpc = "out" /\ fout.batched.ok /\ FinTotal > 0) =>
        /\ fout.whole.ok
        /\ Len(fout.batched.val) = FinNumBatches
        /\ \A k \in 0..(FinNumBatches - 1) :
              LET env == fout.batched.val[k + 1]
                  sel == fout.whole.val[1]
                  window == SubSeq(sel.Data, k * fin.batch + 1,
                                   Min((k + 1) * fin.batch, FinTotal))
              IN /\ env.BatchInfo = Some(BatchInfo(fin.batch, FinNumBatches, k))
                 /\ env.Data = window
                 /\ env.DataSizeBytes = Len(window) * GetElementSize(fin.t.DataType)
                 /\ env.Shape = FinShape /\ env.Shape = sel.Shape
                 /\ env.NumDimensions = Len(FinShape)
                 /\ env.Strides = sel.Strides
                 /\ env.DataType = fin.t.DataType
                 /\ env.TotalElements = FinTotal
                 /\ env.Name = fin.t.Name

C7_Witness ==
    /\ fpc = "out" /\ fout.batched.ok
    /\ FinTotal > fin.batch /\ FinTotal % fin.batch # 0
    /\ Len(fout.batched.val) >= 2
    /\ fout.batched.val[Len(fout.batched.val)].DataSizeBytes
         < fin.batch * GetElementSize(fin.t.DataType)

\* The source offset of the element at row-major position k (0-based) of the
\* slice ranges of a tensor with these strides.
OffsetOf(k, ranges, strides) ==
    LET size == SliceShape(ranges)
        j(i) == (k \div Product(SubSeq(size, i + 1, Len(size)))) % size[i]
        RECURSIVE Sum(_)
        Sum(i) == IF i = 0 THEN 0 ELSE Sum(i - 1) + (ranges[i][1] + j(i)) * strides[i]
    IN Sum(Len(ranges))

\* C14: get_slice with one range [lo, hi) per dimension, 0 <= lo <= hi <=
\* shape[i], returns a buffer of prod(hi - lo) elements whose element at the
\* row-major position of the multi-index j is the source element at offset
\* sum((lo_i + j_i) * strides[i]); it is empty when a range is empty.
C14_SliceElements ==
    (/\ fpc = "out" /\ fin.ranges # Nil
     /\ Len(fin.ranges[1]) = Len(fin.t.Shape)
     /\ \A i \in 1..Len(fin.t.Shape) :
           /\ 0 <= fin.ranges[1][i][1]
           /\ fin.ranges[1][i][1] <= fin.ranges[1][i][2]
           /\ fin.ranges[1][i][2] <= fin.t.Shape[i]) =>
        LET sliced == GetSlice(fin.t, fin.ranges[1])
        IN /\ sliced.ok
           /\ Len(sliced.val) = tNilaiTotalElemen(SliceShape(fin.ranges[1]))
           /\ \A k \in 0..(Len(sliced.val) - 1) :
                 sliced.val[k + 1]
                    = fin.t.Data[OffsetOf(k, fin.ranges[1], fin.t.Strides) + 1]
           /\ fout.whole.ok /\ fout.whole.val[1].Data = sliced.val

\* ------------------------------------------------ properties of SpecParse
\* The text is GET DATA FROM, tensor names with or without a slice each, the
\* BATCH keyword and one operand.
BatchQuery ==
    /\ Len(fin) >= 6
    /\ fin[Len(fin) - 1].kind = "word" /\ fin[Len(fin) - 1].text \in {"BATCH", "batch"}
    /\ fin[1].text = "GET" /\ fin[2].text = "DATA" /\ fin[3].text = "FROM"
    /\ fin[4].kind = "word"
    /\ \A i \in 4..(Len(fin) - 2) :
          /\ fin[i].kind \in {"word", "slice"}
          /\ fin[i].kind = "word" => fin[i].text \notin {"BATCH", "batch"}
          /\ fin[i].kind = "slice" => fin[i - 1].kind = "word"

\* C20: a GET DATA text with a BATCH operand that is not a positive integer (0,
\* a negative number, a word) is rejected; with a positive integer n the query
\* parsed has BatchSize = n; and the tensor names of a parsed query are the
\* names before BATCH, never the keyword or its operand.
C20_BatchOperand ==
    (fpc = "out" /\ BatchQuery) =>
        LET operand == fin[Len(fin)]
            positive == operand.kind = "digits" /\ Atoi(operand.text).ok
                        /\ Atoi(operand.text).val > 0
        IN /\ ~positive => ~fout.ok
           /\ (positive /\ fout.ok) => fout.val.BatchSize = Atoi(operand.text).val
           /\ fout.ok =>
                 \A i \in 1..Len(fout.val.TensorNames) :
                    \E j \in 4..(Len(fin) - 2) :
                       fin[j].kind = "word" /\ fin[j].text = fout.val.TensorNames[i]

\* ----------------------------------------------------- properties of Spec
\* C1: a GET DATA with no slice and batch size 0 of a tensor that successful
\* INSERTs filled returns exactly one envelope whose data is, element by
\* element and in order, the buffer of the most recent successful INSERT.
C1_RoundTrip ==
    (res.op = "GET DATA" /\ res.args = <<Nil, 0>> /\ Has(lastBuf, res.name)) =>
        /\ res.out.ok
        /\ Len(res.out.val) = 1
        /\ res.out.val[1].Data = lastBuf[res.name].data

\* A second INSERT replaced a different buffer, and the GET DATA returned the
\* second, which is not all zero.
C1_Witness ==
    /\ res.op = "GET DATA" /\ res.args = <<Nil, 0>> /\ Has(lastBuf, res.name)
    /\ lastBuf[res.name].prev # Nil
    /\ lastBuf[res.name].prev[1] # lastBuf[res.name].data
    /\ res.out.ok
    /\ res.out.val[1].Data = lastBuf[res.name].data
    /\ Len(lastBuf[res.name].data) = 2
    /\ lastBuf[res.name].data[1] # lastBuf[res.name].data[2]

\* C4: LIST TENSORS with no filter returns every name that has metadata in the
\* store exactly once and no other name, after any sequence of CREATE, INSERT
\* and math operations (so a name created by the query before is listed).
C4_ListingExact ==
    res.op = "LIST" =>
        /\ res.out.ok
        /\ {res.out.val[i].Name : i \in 1..Len(res.out.val)} = DOMAIN fs.meta
        /\ Len(res.out.val) = Cardinality(DOMAIN fs.meta)

\* Three names are listed, none was ever filled by INSERT, and one holds data
\* that is not zero: it is the output of a math operation.
C4_Witness ==
    /\ res.op = "LIST" /\ res.out.ok /\ Len(res.out.val) = 3
    /\ lastBuf = EmptyMap
    /\ \E n \in DOMAIN fs.data : \E i \in 1..Len(fs.data[n]) : fs.data[n][i] # 0

\* C9: CREATE TENSOR of a name whose metadata exists fails with an
\* already-exists error, whatever shape and kind are requested, and leaves the
\* metadata, the data and the index (and the executor's tables) unchanged.
C9_CreateExisting ==
    [][(queries' = queries + 1 /\ res'.op = "CREATE" /\ Has(fs.meta, res'.name)) =>
          /\ res'.out = Err("already exists")
          /\ fs' = fs /\ index' = index /\ tab' = tab]_vars

\* A CREATE of an existing name that asked for another shape and kind than the
\* tensor has was refused.
C9_Witness ==
    /\ res.op = "CREATE" /\ res.out = Err("already exists")
    /\ Has(fs.meta, res.name)
    /\ LoadTensorMetadata(fs, res.name).val.Shape # res.args[1]
    /\ LoadTensorMetadata(fs, res.name).val.DataType # res.args[2]

\* C10: ADD TENSOR or ADD SCALAR whose output name exists in the store fails
\* with an already-exists error and leaves the store unchanged, also when the
\* output names an operand.
C10_MathOutputExists ==
    [][(queries' = queries + 1 /\ res'.op \in {"ADD_TENSORS", "ADD_SCALAR"}
        /\ Has(fs.meta, res'.name)) =>
          /\ res'.out = Err("already exists")
          /\ fs' = fs /\ index' = index /\ tab' = tab]_vars

\* ADD TENSOR of an existing tensor to itself into itself was refused.
C10_Witness ==
    /\ res.op = "ADD_TENSORS" /\ res.out = Err("already exists")
    /\ Has(fs.meta, res.name)
    /\ res.args = <<res.name, res.name>>

\* The elements an INSERT with these arguments provides are not the
\* total_elements of the shape: the raw bytes when there are any, else the
\* literals.
CountDiffers(rawData, data, metadata) ==
    IF Len(rawData) > 0
    THEN \/ Len(rawData) % GetElementSize(metadata.DataType) # 0
         \/ Len(rawData) \div GetElementSize(metadata.DataType)
                # tNilaiTotalElemen(metadata.Shape)
    ELSE Len(data) # tNilaiTotalElemen(metadata.Shape)

\* C11: an INSERT into an existing tensor that provides a number of elements
\* other than total_elements(shape) fails with a size-mismatch error, for
\* literals (their count) and for raw bytes (a length that is no multiple of
\* the element size, or whose quotient is not total_elements); it writes nothing.
C11_InsertSizeMismatch ==
    [][(/\ queries' = queries + 1 /\ res'.op = "INSERT"
        /\ LoadTensorMetadata(fs, res'.name).ok
        /\ CountDiffers(res'.args[1], res'.args[2], LoadTensorMetadata(fs, res'.name).val)) =>
          /\ ~res'.out.ok
          /\ res'.out.err \in {"raw data size is not a multiple of element size",
                               "raw data element count", "string data element count"}
          /\ fs' = fs]_vars

\* Raw bytes of one float32 element were refused by a tensor of two elements.
C11_Witness ==
    /\ res.op = "INSERT" /\ res.out = Err("raw data element count")
    /\ Len(res.args[1]) = 4
    /\ LoadTensorMetadata(fs, res.name).ok
    /\ LoadTensorMetadata(fs, res.name).val.Shape = <<2>>

\* The data file of name has the length its metadata file asks for.
FileLengthOf(name) ==
    /\ LoadTensorMetadata(fs, name).ok
    /\ Has(fs.data, name)
    /\ Len(fs.data[name]) = tNilaiTotalElemen(LoadTensorMetadata(fs, name).val.Shape)
                              * GetElementSize(LoadTensorMetadata(fs, name).val.DataType)

\* C12: after a successful CREATE, INSERT or math operation the data file of
\* the tensor written has exactly total_elements(shape) * element_size(kind)
\* bytes, shape and kind being those of its metadata file (no byte for a shape
\* with a zero dimension, one element for rank 0); so has every tensor of the
\* store.
C12_FileLength ==
    /\ (res.op \in {"CREATE", "INSERT", "ADD_TENSORS", "ADD_SCALAR"} /\ res.out.ok) =>
           FileLengthOf(res.name)
    /\ \A name \in DOMAIN fs.meta : FileLengthOf(name)

\* A math operation wrote a rank-0 tensor of one int64 element while the store
\* holds an empty tensor with no data byte and another tensor of eight bytes.
C12_Witness ==
    /\ res.op \in {"ADD_TENSORS", "ADD_SCALAR"} /\ res.out.ok
    /\ LoadTensorMetadata(fs, res.name).val.Shape = <<>>
    /\ Len(fs.data[res.name]) = 8
    /\ \E n \in DOMAIN fs.meta :
          LoadTensorMetadata(fs, n).val.Shape = <<0>> /\ fs.data[n] = <<>>
    /\ \E n \in DOMAIN fs.meta : n # res.name /\ Len(fs.data[n]) = 8

\* ----------------------------------------------- properties of SpecShapes
\* The stride rule: as many strides as dimensions; all 0 when a dimension is 0;
\* else the last is 1 and each other is the next stride times the next
\* dimension.
StrideRule(shape, strides) ==
    /\ Len(strides) = Len(shape)
    /\ IF \E i \in 1..Len(shape) : shape[i] = 0
       THEN \A i \in 1..Len(strides) : strides[i] = 0
       ELSE /\ Len(shape) > 0 => strides[Len(shape)] = 1
            /\ \A i \in 1..(Len(shape) - 1) : strides[i] = strides[i + 1] * shape[i + 1]

\* C13: the strides of every tensor CREATE and the math operations made, as
\* its metadata file holds them and as LIST reports them, and the strides of
\* every selection GET DATA returns follow the stride rule for their shape
\* (empty for rank 0).
C13_StrideRule ==
    /\ \A n \in DOMAIN fs.meta :
          /\ LoadTensorMetadata(fs, n).ok
          /\ StrideRule(LoadTensorMetadata(fs, n).val.Shape,
                        LoadTensorMetadata(fs, n).val.Strides)
    /\ (res.op \in {"LIST", "GET DATA"} /\ res.out.ok) =>
          \A i \in 1..Len(res.out.val) :
              StrideRule(res.out.val[i].Shape, res.out.val[i].Strides)
    /\ (res.op = "LIST" /\ res.out.ok) =>
          \A i \in 1..Len(res.out.val) :
              res.out.val[i].Strides = LoadTensorMetadata(fs, res.out.val[i].Name).val.Strides

\* A GET DATA returned the selection of shape [1, 2] with strides [2, 1] from
\* the tensor c of rank 2, which only a math operation can have made, while
\* the store holds a tensor with a zero dimension.
C13_Witness ==
    /\ res.op = "GET DATA" /\ res.out.ok /\ res.args[1] # Nil /\ res.name = "c"
    /\ res.out.val[1].Shape = <<1, 2>> /\ res.out.val[1].Strides = <<2, 1>>
    /\ \E n \in DOMAIN fs.meta : LoadTensorMetadata(fs, n).val.Strides = <<0, 0>>

\* C15: LIST TENSORS WHERE DATATYPE = k and/or NUM_DIMENSIONS = n returns
\* exactly the tensors of the store whose kind is k (when given) and whose
\* shape has n dimensions, len(shape) = n (when given), each once, also for
\* shapes with a zero-sized dimension.
C15_ListFiltered ==
    res.op = "LIST WHERE" =>
        /\ res.out.ok
        /\ {res.out.val[i].Name : i \in 1..Len(res.out.val)}
              = {n \in DOMAIN fs.meta :
                    /\ res.args[1] # "" =>
                          LoadTensorMetadata(fs, n).val.DataType = res.args[1]
                    /\ res.args[2] # -1 =>
                          Len(LoadTensorMetadata(fs, n).val.Shape) = res.args[2]}
        /\ \A i, j \in 1..Len(res.out.val) :
              res.out.val[i].Name = res.out.val[j].Name => i = j

\* The elements the data file of name holds in the directory fsys.
ElementsOf(fsys, name) ==
    Decode(LoadTensorMetadata(fsys, name).val.DataType, fsys.data[name],
           tNilaiTotalElemen(LoadTensorMetadata(fsys, name).val.Shape))

\* C16: ADD TENSOR a WITH TENSOR b INTO c succeeds only for operands of one
\* shape and one kind; then c is a new tensor of that shape and kind, indexed,
\* with c[i] = a[i] + b[i] for every element (none for operands without
\* elements) and every other tensor is as before; when the shapes or the kinds
\* of a and b differ it fails and neither the store nor the index changes.
C16_AddTensors ==
    [][(queries' = queries + 1 /\ res'.op = "ADD_TENSORS") =>
          LET a == res'.args[1]
              b == res'.args[2]
              c == res'.name
              metaA == LoadTensorMetadata(fs, a)
              metaB == LoadTensorMetadata(fs, b)
          IN /\ res'.out.ok =>
                   /\ metaA.ok /\ metaB.ok
                   /\ metaA.val.Shape = metaB.val.Shape
                   /\ metaA.val.DataType = metaB.val.DataType
                   /\ ~Has(fs.meta, c)
                   /\ LoadTensorMetadata(fs', c).ok
                   /\ LoadTensorMetadata(fs', c).val.Shape = metaA.val.Shape
                   /\ LoadTensorMetadata(fs', c).val.DataType = metaA.val.DataType
                   /\ Len(ElementsOf(fs', c)) = tNilaiTotalElemen(metaA.val.Shape)
                   /\ \A i \in 1..Len(ElementsOf(fs', c)) :
                         ElementsOf(fs', c)[i] = ElementsOf(fs, a)[i] + ElementsOf(fs, b)[i]
                   /\ \A n \in DOMAIN fs.meta :
                         fs'.meta[n] = fs.meta[n] /\ fs'.data[n] = fs.data[n]
                   /\ c \in Query(index', metaA.val.DataType, -1)
             /\ (/\ metaA.ok /\ metaB.ok
                 /\ \/ metaA.val.Shape # metaB.val.Shape
                    \/ metaA.val.DataType # metaB.val.DataType) =>
                   ~res'.out.ok /\ fs' = fs /\ index' = index]_vars

\* c is the sum of two different tensors of rank 2, one of them filled by an
\* INSERT.
C16_Witness ==
    /\ res.op = "ADD_TENSORS" /\ res.out.ok /\ res.args = <<"a", "b">> /\ res.name = "c"
    /\ Len(LoadTensorMetadata(fs, "c").val.Shape) = 2
    /\ ElementsOf(fs, "a") # ElementsOf(fs, "b")
    /\ ElementsOf(fs, "c") = ElementsOf(fs, "a")
    /\ \E i \in 1..Len(ElementsOf(fs, "c")) : ElementsOf(fs, "c")[i] # 0

\* The first name in order whose entry in table holds a handle of fails.
FirstFailing(order, table, fails) ==
    order[CHOOSE i \in 1..Len(order) :
            /\ table[order[i]] # Nil /\ table[order[i]][1] \in fails
            /\ \A j \in 1..(i - 1) :
                  table[order[j]] = Nil \/ table[order[j]][1] \notin fails]

\* C17: Executor.Close leaves both tables empty; every retained mmap whose
\* unmap does not fail is unmapped and every retained file whose close does
\* not fail is closed, whatever else fails; it returns no error when nothing
\* fails and else the first failure met, the unmaps coming before the closes.
C17_CloseAll ==
    [][(queries' = queries + 1 /\ res'.op = "CLOSE") =>
          LET mmapOrder == res'.args[1]
              fileOrder == res'.args[2]
              unmapFails == res'.args[3]
              closeFails == res'.args[4]
          IN /\ tab'.mmaps = EmptyMap /\ tab'.openFiles = EmptyMap
             /\ \A h \in Retained(tab.mmaps) : h \in tab'.mapped <=> h \in unmapFails
             /\ \A h \in Retained(tab.openFiles) : h \in tab'.opened <=> h \in closeFails
             /\ res'.out.ok <=> (unmapFails = {} /\ closeFails = {})
             /\ unmapFails # {} =>
                   res'.out.err = [text |-> "failed to unmap",
                                   name |-> FirstFailing(mmapOrder, tab.mmaps, unmapFails)]
             /\ (unmapFails = {} /\ closeFails # {}) =>
                   res'.out.err = [text |-> "failed to close file",
                                   name |-> FirstFailing(fileOrder, tab.openFiles, closeFails)]
             /\ fs' = fs /\ index' = index]_vars

\* Two pairs were retained; the unmap met first failed and so did a close of
\* the other name: the other mmap was unmapped, the other file closed, and
\* the unmap failure returned.
C17_Witness ==
    /\ res.op = "CLOSE" /\ Len(res.args[1]) = 2
    /\ Cardinality(res.args[3]) = 1 /\ Cardinality(res.args[4]) = 1
    /\ \E h \in res.args[3] : h.name = res.args[1][1]
    /\ \E h \in res.args[4] : h.name = res.args[1][2]
    /\ res.out = Err([text |-> "failed to unmap", name |-> res.args[1][1]])
    /\ tab.mapped = res.args[3] /\ tab.opened = res.args[4]
    /\ tab.mmaps = EmptyMap /\ tab.openFiles = EmptyMap

\* C18: the view a direct mmap access returned stays mapped, and its file
\* open, until its disposer is called, whatever the executor is asked in
\* between (reads of the same name included); the disposer unmaps that view
\* and closes that file.
C18_DisposerReleasesView ==
    [][/\ view' # Nil =>
             /\ view'[1].mmap # Nil => view'[1].mmap[1] \in tab'.mapped
             /\ view'[1].file # Nil => view'[1].file[1] \in tab'.opened
       /\ (queries' = queries + 1 /\ res'.op = "DISPOSE") =>
             /\ view[1].mmap # Nil =>
                   view[1].mmap[1] \in tab.mapped /\ view[1].mmap[1] \notin tab'.mapped
             /\ view[1].file # Nil =>
                   view[1].file[1] \in tab.opened /\ view[1].file[1] \notin tab'.opened
             /\ tab'.mapped \cup {h \in tab.mapped : view[1].mmap = Some(h)} = tab.mapped
             /\ tab'.opened \cup {h \in tab.opened : view[1].file = Some(h)} = tab.opened]_vars

\* The nest that mirrors shape over the elements data in row-major order.
RECURSIVE Nest(_, _)
Nest(shape, data) ==
    IF shape = <<>> THEN FmtElem(data[1])
    ELSE FmtList([k \in 1..shape[1] |->
                     Nest(Tail(shape),
                          SubSeq(data, (k - 1) * tNilaiTotalElemen(Tail(shape)) + 1,
                                 k * tNilaiTotalElemen(Tail(shape))))])

\* C19: a SELECT of a whole tensor (no slice) that returns a value returns the
\* nest mirroring the shape over the stored elements in row-major order: the
\* bare element for rank 0, the empty sequence for shape [0, 2], and two empty
\* sequences for shape [2, 0].
C19_SelectNest ==
    [][(/\ queries' = queries + 1 /\ res'.op = "SELECT" /\ res'.args = Nil
        /\ res'.out.ok) =>
          LET metadata == LoadTensorMetadata(fs, res'.name)
          IN /\ metadata.ok
             /\ res'.out.val = Nest(metadata.val.Shape, ElementsOf(fs, res'.name))
             /\ metadata.val.Shape = <<>> =>
                   res'.out.val = FmtElem(ElementsOf(fs, res'.name)[1])
             /\ metadata.val.Shape = <<0, 2>> => res'.out.val = FmtList(<<>>)
             /\ metadata.val.Shape = <<2, 0>> =>
                   res'.out.val = FmtList(<<FmtList(<<>>), FmtList(<<>>)>>)]_vars

\* A whole SELECT returned the two rows [1] and [2] of a tensor of shape [2, 1].
C19_Witness ==
    /\ res.op = "SELECT" /\ res.args = Nil /\ res.out.ok
    /\ res.out.val = FmtList(<<FmtList(<<FmtElem(1)>>), FmtList(<<FmtElem(2)>>)>>)

\* ------------------------------------------------- properties of SpecOpen
\* The metadata file of name in the directory fsys has a line of the key.
HasLine(fsys, name, key) ==
    \E i \in 1..Len(fsys.meta[name]) : fsys.meta[name][i][1] = key

\* C21: a metadata file without a strides line loads with the strides the
\* constructor computes for its shape (all 0 for a shape with a zero
\* dimension, none for rank 0), and a save of a tensor whose strides are
\* missing or of the wrong length writes those strides.
C21_DefaultStrides ==
    /\ [](\A n \in DOMAIN fs.meta :
            (~HasLine(fs, n, "strides") /\ LoadTensorMetadata(fs, n).ok) =>
                LoadTensorMetadata(fs, n).val.Strides
                    = NewStrides(LoadTensorMetadata(fs, n).val.Shape))
    /\ [][(/\ queries' = queries + 1 /\ res'.op = "SAVE" /\ res'.out.ok
            /\ Len(res'.args.Strides) # Len(res'.args.Shape)) =>
              LoadTensorMetadata(fs', res'.name).val.Strides
                  = NewStrides(res'.args.Shape)]_vars

\* The data file of name exists in fsys and its length is not what the
\* metadata of name asks for.
WrongLength(fsys, name) ==
    /\ LoadTensorMetadata(fsys, name).ok
    /\ Has(fsys.data, name)
    /\ Len(fsys.data[name])
         # tNilaiTotalElemen(LoadTensorMetadata(fsys, name).val.Shape)
           * GetElementSize(LoadTensorMetadata(fsys, name).val.DataType)

\* C22: a read (SELECT, GET DATA, an operand of a math operation) of a tensor
\* whose data file exists with a length other than total elements times element
\* size fails, also for a tensor of no elements whose data file is not empty.
C22_CorruptDataFails ==
    [][(queries' = queries + 1) =>
          /\ (res'.op \in {"SELECT", "GET DATA"} /\ WrongLength(fs, res'.name))
                => ~res'.out.ok
          /\ (res'.op = "ADD_SCALAR" /\ WrongLength(fs, res'.args[1])) => ~res'.out.ok
          /\ (/\ res'.op = "ADD_TENSORS"
              /\ WrongLength(fs, res'.args[1]) \/ WrongLength(fs, res'.args[2]))
                => ~res'.out.ok]_vars

\* C23: a metadata file that lacks the name, the shape or the datatype line
\* does not load; a file without a name line is not indexed when the store is
\* opened, and CREATE of its name does not report that the tensor exists.
C23_MissingKeyFails ==
    /\ [](\A n \in DOMAIN fs.meta :
            (\E key \in {"name", "shape", "datatype"} : ~HasLine(fs, n, key))
                => ~LoadTensorMetadata(fs, n).ok)
    /\ [](res.op = "OPEN" =>
            \A n \in DOMAIN fs.meta :
                ~HasLine(fs, n, "name") => n \notin Query(index, "", -1))
    /\ [][(/\ queries' = queries + 1 /\ res'.op = "CREATE"
            /\ Has(fs.meta, res'.name) /\ ~HasLine(fs, res'.name, "name")) =>
              res'.out # Err("already exists")]_vars

\* C24: SaveTensor fails for a tensor whose buffer does not hold as many
\* elements as its shape asks for (too few, too many, or any for a shape of no
\* elements), and it leaves no data file whose length disagrees with the shape
\* of the metadata file it wrote.
C24_SaveChecksLength ==
    [][(queries' = queries + 1 /\ res'.op = "SAVE") =>
          /\ Len(res'.args.Data) # tNilaiTotalElemen(res'.args.Shape) => ~res'.out.ok
          /\ ~WrongLength(fs', res'.name)]_vars

\* C25: an INSERT that returns a success status has persisted the new buffer:
\* the files of the tensor hold it afterwards; when the save fails the INSERT
\* returns an error.
C25_InsertPersisted ==
    [][(queries' = queries + 1 /\ res'.op = "INSERT" /\ res'.out.ok) =>
          /\ LoadTensorMetadata(fs', res'.name).ok
          /\ Has(fs'.data, res'.name)
          /\ ~WrongLength(fs', res'.name)
          /\ ElementsOf(fs', res'.name) = lastBuf'[res'.name].data
          /\ res'.name \notin fs.locked]_vars

\* ------------------------------------------------ properties of Spec, II
\* C29: an INSERT that returns an error (no such tensor, a number of elements
\* other than the shape's on either channel, raw bytes that are no multiple of
\* the element size, a literal that does not parse in the tensor's kind)
\* leaves the store as it was: the directory and the index are the same, and a
\* read of the tensor returns what it returned before.
C29_FailedInsertKeepsStore ==
    [][(queries' = queries + 1 /\ res'.op = "INSERT" /\ ~res'.out.ok) =>
          /\ res'.out.err \in {"not found for insert", "raw data element count",
                               "string data element count",
                               "raw data size is not a multiple of element size",
                               "error parsing value"}
          /\ fs' = fs
          /\ index' = index
          /\ lastBuf' = lastBuf
          /\ GetDataTask(fs', tab', res'.name, Nil, 0).out
                = GetDataTask(fs, tab, res'.name, Nil, 0).out]_vars

\* A literal that is no number was refused by a tensor that holds the element
\* of an earlier INSERT.
C29_Witness ==
    /\ res.op = "INSERT" /\ res.out = Err("error parsing value")
    /\ Has(lastBuf, res.name) /\ lastBuf[res.name].data = <<2>>
    /\ GetDataTask(fs, tab, res.name, Nil, 0).out.ok
    /\ GetDataTask(fs, tab, res.name, Nil, 0).out.val[1].Data = lastBuf[res.name].data

\* The metadata files of the directory that parse.
Parsed(fsys) == {n \in DOMAIN fsys.meta : LoadTensorMetadata(fsys, n).ok}

\* The names a map of the index holds under some key.
Held(m) == UNION {m[k] : k \in DOMAIN m}

\* The rank a shape is indexed under: its length, a shape [0] under 0.
RankKey(shape) == IF shape = <<0>> THEN 0 ELSE Len(shape)

KeysOf(m, n) == {k \in DOMAIN m : n \in m[k]}

\* C30: the index is consistent after every operation on an opened store: the
\* names under the kinds are the names under the ranks, every indexed name is
\* in exactly one kind set and exactly one rank set, and no key of either map
\* holds an empty set, after a remove included.
C30_IndexConsistent ==
    /\ Held(index.ByDataType) = Held(index.ByNumDimensions)
    /\ \A n \in Held(index.ByDataType) :
          /\ Cardinality(KeysOf(index.ByDataType, n)) = 1
          /\ Cardinality(KeysOf(index.ByNumDimensions, n)) = 1
    /\ \A k \in DOMAIN index.ByDataType : index.ByDataType[k] # {}
    /\ \A k \in DOMAIN index.ByNumDimensions : index.ByNumDimensions[k] # {}

\* A remove took the last tensor of its rank out of an index that still holds
\* another tensor.
C30_Witness ==
    /\ res.op = "REMOVE"
    /\ res.name \notin Held(index.ByDataType)
    /\ Held(index.ByDataType) # {}
    /\ ~Has(index.ByNumDimensions,
            RankKey(LoadTensorMetadata(fs, res.name).val.Shape))

\* -------------------------------------------------- properties of SpecGet
\* What position i of the returned value holds (a query of one name returns
\* the envelopes themselves).
ResultAt(i) ==
    IF Len(query.TensorNames) = 1 THEN getOut.out.val ELSE getOut.out.val[i]

\* The envelopes of the i-th name: what its task yields run alone on the
\* directory.
EnvelopesOf(i) ==
    GetDataTask(fs, NewExecutor, tName(i), currentTensorSlices(query, i - 1),
                query.BatchSize).out.val

C3_PairsReleased ==
    getOut.state = "returned" =>
        /\ \A h \in tab.mapped : Has(tab.mmaps, h.name) /\ tab.mmaps[h.name] = Some(h)
        /\ \A h \in tab.opened : Has(tab.openFiles, h.name) /\ tab.openFiles[h.name] = Some(h)

\* The tasks that published an error.
Failed == {i \in DOMAIN tasks : tasks[i].sent # Nil /\ ~tasks[i].sent[1].ok}

\* C8: when at least one task of a GET DATA failed, the query returns an error
\* and no result, and the error has one part for every task that failed; when
\* none failed it returns results for all names.
C8_EveryFailureDescribed ==
    getOut.state = "returned" =>
        IF Failed # {}
        THEN /\ ~getOut.out.ok
             /\ Len(getOut.out.err.parts) = Cardinality(Failed)
             /\ \A i \in Failed :
                   Cardinality({j \in DOMAIN getOut.out.err.parts :
                                   getOut.out.err.parts[j] = tasks[i].sent[1].err})
                     = Cardinality({j \in Failed : tasks[j].sent[1].err = tasks[i].sent[1].err})
        ELSE /\ getOut.out.ok
             /\ \A i \in DOMAIN tasks :
                   /\ Len(ResultAt(i)) > 0
                   /\ \A e \in DOMAIN ResultAt(i) : ResultAt(i)[e].Name = tName(i)
             /\ Len(query.TensorNames) > 1 => Len(getOut.out.val) = Len(query.TensorNames)

\* A query of three names returned: one task found no tensor, one could not
\* open its data file, one had published its envelopes.
C8_Witness ==
    /\ getOut.state = "returned"
    /\ ~getOut.out.ok
    /\ \E i, j \in Failed : tasks[i].sent[1].err.text # tasks[j].sent[1].err.text
    /\ \E i \in DOMAIN tasks : tasks[i].sent # Nil /\ tasks[i].sent[1].ok

\* C26: no task of a GET DATA decodes elements from a mapping that has been
\* unmapped: the mapping a task is about to copy from is still mapped, for
\* every interleaving of the tasks, and the process never faults on a read.
C26_ReadsMappedOnly ==
    /\ getOut.state # "crashed"
    /\ \A i \in DOMAIN tasks : tasks[i].pc = "read" => ~Dangling(i)

\* C27: every GET DATA terminates: each of its k tasks publishes exactly one
\* message, on channels that hold k messages so that no send blocks; the
\* executor returns only after all k tasks have finished; and it does return.
C27_GetDataTerminates ==
    /\ [](\A i \in DOMAIN tasks : tasks[i].pc = "done" <=> tasks[i].sent # Nil)
    /\ [](Len(errChan) + Len(resultChan)
            = Cardinality({i \in DOMAIN tasks : tasks[i].sent # Nil}))
    /\ [](Len(errChan) + Len(resultChan) <= Len(query.TensorNames))
    /\ [](getOut.state = "returned" => \A i \in DOMAIN tasks : tasks[i].pc = "done")
    /\ <>(getOut.state = "returned")
====
